---- MODULE Spec2Model ----
(***************************************************************************)
(* A model of the PDF editing core: LayoutMapper (region clustering),      *)
(* PDFRenderer (scoped mutation sessions against the PDF engine) and       *)
(* PDFEditor (orchestration).  Coordinates and font sizes are integers     *)
(* (points); strings that the code inspects character by character are     *)
(* tuples of one-character strings.                                        *)
(***************************************************************************)
EXTENDS Integers, Sequences, FiniteSets, TLC

VARIABLES
    regions,        \* LayoutMapper.regions: dict page -> list of LayoutRegion, in key insertion order
    text_blocks,    \* PDFEditor._text_blocks: None or the cached block list
    document,       \* PDFRenderer.document: "None", "open" or "closed" (a closed handle is still referenced)
    output_path,    \* PDFRenderer.output_path
    in_scope,       \* TRUE while control is inside the body of `with PDFRenderer(...)`
    cmds,           \* the drawing commands the last call issued on its document handle, in order
    writes,         \* every document.save issued so far, in order
    open_handles,   \* the components whose fitz handle is currently open
    ret,            \* the last call: operation, arguments, returned value or raised exception
    file,           \* the spans of the PDF file at PDFEditor.pdf_path, in the engine's emission order
    custom_dictionary,  \* SpellChecker.custom_dictionary: a set of words
    pdf_sessions,   \* api_server.pdf_sessions[pdf_id]: the session's editor and its file path
    disk,           \* the upload folder: path -> None or the content of the file
    requests        \* the requests the server is handling: kind, position in the handler, locals

\* What the PDF editing core never touches.
serverVars == <<pdf_sessions, disk, requests>>

vars == <<regions, text_blocks, document, output_path, in_scope, cmds, writes, open_handles, ret, file,
          custom_dictionary, pdf_sessions, disk, requests>>

-----------------------------------------------------------------------------
(* Bounds of the model.                                                    *)

NumPages == 2       \* pages of the document: valid indices are 0 .. NumPages-1
MaxBlocks == 3      \* blocks one LayoutMapper is fed in total
MaxCall == 2        \* blocks handed to one add_text_blocks call
MaxWrites == 2      \* saves issued in one run
MaxLoads == 2       \* block lists cached in the editor's mapper (calls of load)
MaxList == 3        \* blocks, spans, words or characters in one argument of a function
MaxRequests == 2    \* mutation requests the server handles for one pdf_id

-----------------------------------------------------------------------------
(* Python values.                                                          *)

\* Optional[T]: None is the empty tuple, a value v is <<v>>.
None == <<>>
Some(v) == <<v>>
IsNone(o) == o = <<>>
Val(o) == o[1]

Abs(n) == IF n < 0 THEN -n ELSE n

Min(S) == CHOOSE n \in S : \A m \in S : n <= m

\* str.lower() on ASCII letters.
UpperLetters == <<"A", "B", "C", "D", "E", "F", "G", "H", "I", "J", "K", "L", "M",
                  "N", "O", "P", "Q", "R", "S", "T", "U", "V", "W", "X", "Y", "Z">>
LowerLetters == <<"a", "b", "c", "d", "e", "f", "g", "h", "i", "j", "k", "l", "m",
                  "n", "o", "p", "q", "r", "s", "t", "u", "v", "w", "x", "y", "z">>

ToLower ==
    [c \in {UpperLetters[i] : i \in 1..Len(UpperLetters)} |->
        LowerLetters[CHOOSE i \in 1..Len(UpperLetters) : UpperLetters[i] = c]]

LowerChar(c) == IF c \in DOMAIN ToLower THEN ToLower[c] ELSE c

Lower(s) == [i \in 1..Len(s) |-> LowerChar(s[i])]

\* `needle in hay` for str: needle occurs as a contiguous substring.
StrIn(needle, hay) ==
    \E i \in 0..(Len(hay) - Len(needle)) :
        \A k \in 1..Len(needle) : hay[i + k] = needle[k]

-----------------------------------------------------------------------------
(* TextBlock (extraction/text_extractor.py).                               *)

TextBlock(text, x0, y0, x1, y1, font_name, font_size, page_number, block_number) ==
    [text |-> text, x0 |-> x0, y0 |-> y0, x1 |-> x1, y1 |-> y1,
     font_name |-> font_name, font_size |-> font_size, font_flags |-> 0,
     color |-> <<0, 0, 0>>, page_number |-> page_number,
     block_number |-> block_number, line_number |-> 0]

\* The properties width, height and position of TextBlock.
width(block) == block.x1 - block.x0
height(block) == block.y1 - block.y0
block_position(block) == <<block.x0, block.y0>>

\* Font names as the PDF engine reports them.
Helvetica == <<"H", "e", "l", "v", "e", "t", "i", "c", "a">>
TimesBold == <<"T", "i", "m", "e", "s", "-", "B", "o", "l", "d">>
Arial == <<"A", "r", "i", "a", "l">>

\* The blocks the layout model draws its inputs from.  bA is the reference
\* box; bB overlaps bA in x but is too tall for it; bC fits both (and bB
\* better); bD is exactly Tolerance away from bA in x; bE touches bA's
\* vertical tolerance exactly; bG misses it by one; bF is bA on the next page.
bA == TextBlock(<<"a", "b">>, 0, 10, 20, 20, Helvetica, 12, 0, 0)
bB == TextBlock(<<"A", "b", " ", "c">>, 4, 10, 24, 40, Helvetica, 12, 0, 1)
bC == TextBlock(<<"c">>, 3, 10, 23, 20, TimesBold, 10, 0, 2)
bD == TextBlock(<<"b", "a">>, 5, 10, 25, 20, Arial, 12, 0, 3)
bE == TextBlock(<<"a", "b">>, 0, 5, 20, 25, Helvetica, 12, 0, 4)
bG == TextBlock(<<"c">>, 0, 4, 20, 20, Helvetica, 12, 0, 5)
bF == TextBlock(<<"a", "b">>, 0, 10, 20, 20, Helvetica, 12, NumPages - 1, 0)
\* bH stands in a column of its own, 25 to the right of bD and 30 of bA.
bH == TextBlock(<<"B", "a">>, 50, 10, 70, 20, Helvetica, 12, 0, 6)

LayoutBlocks == {bA, bB, bC, bD, bE, bG, bF, bH}

\* File paths: the input document and another file.
InPath == <<"i">>
OutPath == <<"o">>

\* All lists of at most n elements of S.
SeqUpTo(S, n) == UNION {[1..k -> S] : k \in 0..n}

-----------------------------------------------------------------------------
(* LayoutMapper (layout/layout_mapper.py).                                 *)

Tolerance == 5

LayoutRegion(x0, y0, x1, y1, page_number, blocks) ==
    [x0 |-> x0, y0 |-> y0, x1 |-> x1, y1 |-> y1,
     page_number |-> page_number, text_blocks |-> blocks]

\* A dict is a list of entries [key, value] in insertion order.
DictKeys(d) == [i \in 1..Len(d) |-> d[i].key]
DictHas(d, k) == \E i \in 1..Len(d) : d[i].key = k
DictIndex(d, k) == CHOOSE i \in 1..Len(d) : d[i].key = k
DictGet(d, k, default) == IF DictHas(d, k) THEN d[DictIndex(d, k)].value ELSE default
DictSet(d, k, v) ==
    IF DictHas(d, k)
    THEN [d EXCEPT ![DictIndex(d, k)].value = v]
    ELSE Append(d, [key |-> k, value |-> v])

_is_block_in_region_inside(block, region, tolerance) ==
    /\ Abs(block.x0 - region.x0) < tolerance
    /\ Abs(block.x1 - region.x1) < tolerance
    /\ block.y0 > region.y0
    /\ block.y1 < region.y1

_is_block_in_region_le(block, region, tolerance) ==
    /\ Abs(block.x0 - region.x0) <= tolerance
    /\ Abs(block.x1 - region.x1) <= tolerance
    /\ block.y0 >= region.y0 - tolerance
    /\ block.y1 <= region.y1 + tolerance

_is_block_in_region(block, region, tolerance) ==
    /\ Abs(block.x0 - region.x0) < tolerance
    /\ Abs(block.x1 - region.x1) < tolerance
    /\ block.y0 >= region.y0 - tolerance
    /\ block.y1 <= region.y1 + tolerance

\* region.text_blocks.append(block), mutated: the box grows to cover the block.
AbsorbBlockExpanding(region, block) ==
    [region EXCEPT !.text_blocks = Append(@, block),
                   !.x0 = IF block.x0 < @ THEN block.x0 ELSE @,
                   !.y0 = IF block.y0 < @ THEN block.y0 ELSE @,
                   !.x1 = IF block.x1 > @ THEN block.x1 ELSE @,
                   !.y1 = IF block.y1 > @ THEN block.y1 ELSE @]

\* region.text_blocks.append(block)
AbsorbBlock(region, block) ==
    [region EXCEPT !.text_blocks = Append(@, block)]

\* A region created without its first block.
NewRegionWithoutBlock(block) ==
    LayoutRegion(block.x0, block.y0, block.x1, block.y1, block.page_number, <<>>)

\* LayoutRegion(x0=block.x0, ..., text_blocks=[block])
NewRegion(block) ==
    LayoutRegion(block.x0, block.y0, block.x1, block.y1, block.page_number, <<block>>)

\* The inner loop `for region in self.regions[page]: if fits: append; break`,
\* from index i on; the result is the page's new region list.
RECURSIVE ScanRegions(_, _, _)
ScanRegions(list, block, i) ==
    IF i > Len(list)
    THEN Append(list, NewRegion(block))                     \* not added
    ELSE IF _is_block_in_region(block, list[i], Tolerance)
         THEN [list EXCEPT ![i] = AbsorbBlock(list[i], block)]  \* added; break
         ELSE ScanRegions(list, block, i + 1)

\* One iteration of the outer loop of add_text_blocks.
AddBlock(regs, block) ==
    LET withKey == IF DictHas(regs, block.page_number)
                   THEN regs
                   ELSE DictSet(regs, block.page_number, <<>>)
        list == DictGet(withKey, block.page_number, <<>>)
    IN  DictSet(withKey, block.page_number, ScanRegions(list, block, 1))

RECURSIVE AddTextBlocksFrom(_, _, _)
AddTextBlocksFrom(regs, blocks, i) ==
    IF i > Len(blocks) THEN regs
    ELSE AddTextBlocksFrom(AddBlock(regs, blocks[i]), blocks, i + 1)

add_text_blocks(regs, blocks) == AddTextBlocksFrom(regs, blocks, 1)

get_regions_on_page(regs, page_number) == DictGet(regs, page_number, <<>>)

\* The blocks of regions i, i+1, ... of one page whose text contains the
\* search text, case-insensitively, in region-then-member order.
RECURSIVE MatchesFromRegionCaseSensitive(_, _, _)
MatchesFromRegionCaseSensitive(list, search_text, i) ==
    IF i > Len(list) THEN <<>>
    ELSE SelectSeq(list[i].text_blocks, LAMBDA block : StrIn(search_text, block.text))
           \o MatchesFromRegionCaseSensitive(list, search_text, i + 1)

RECURSIVE MatchesFromRegion(_, _, _)
MatchesFromRegion(list, search_text, i) ==
    IF i > Len(list) THEN <<>>
    ELSE SelectSeq(list[i].text_blocks,
                   LAMBDA block : StrIn(Lower(search_text), Lower(block.text)))
           \o MatchesFromRegion(list, search_text, i + 1)

RECURSIVE MatchesFromPage(_, _, _, _)
MatchesFromPage(regs, pages, search_text, i) ==
    IF i > Len(pages) THEN <<>>
    ELSE MatchesFromRegion(get_regions_on_page(regs, pages[i]), search_text, 1)
           \o MatchesFromPage(regs, pages, search_text, i + 1)

find_blocks_by_text(regs, search_text, page_number) ==
    LET pages == IF IsNone(page_number) THEN DictKeys(regs) ELSE <<Val(page_number)>>
    IN  MatchesFromPage(regs, pages, search_text, 1)

\* sorted(items, key=lambda r: r.<key>): Python's sort is stable, so items
\* with equal keys keep their order.  InsertSorted puts item after every
\* element of the sorted list whose key is not greater.
RECURSIVE InsertSorted(_, _, _, _)
InsertSorted(list, item, key, i) ==
    IF i > Len(list) THEN Append(list, item)
    ELSE IF list[i][key] > item[key]
         THEN SubSeq(list, 1, i - 1) \o <<item>> \o SubSeq(list, i, Len(list))
         ELSE InsertSorted(list, item, key, i + 1)

RECURSIVE SortedFrom(_, _, _, _)
SortedFrom(acc, items, key, i) ==
    IF i > Len(items) THEN acc
    ELSE SortedFrom(InsertSorted(acc, items[i], key, 1), items, key, i + 1)

sorted(items, key) == SortedFrom(<<>>, items, key, 1)

\* sum(block.<key> for block in text_blocks)
RECURSIVE SumOf(_, _, _)
SumOf(items, key, i) == IF i > Len(items) THEN 0 ELSE items[i][key] + SumOf(items, key, i + 1)

\* detect_alignment.  The averages are quotients sum / len; each comparison
\* is carried out on the exact quotients, multiplied through by len and by
\* the denominators of 0.8 = 4/5 and 0.7 = 7/10.
detect_alignment_right_first(blocks, page_width) ==
    LET n == Len(blocks)
        s0 == SumOf(blocks, "x0", 1)
        s1 == SumOf(blocks, "x1", 1)
    IN  IF n = 0 THEN "LEFT"
        ELSE IF 5 * s1 > 4 * n * page_width THEN "RIGHT"
        ELSE IF Abs(s0 + s1 - n * page_width) < 40 * n THEN "CENTER"
        ELSE IF 10 * (s1 - s0) > 7 * n * page_width THEN "JUSTIFIED"
        ELSE "LEFT"

detect_alignment(blocks, page_width) ==
    LET n == Len(blocks)
        s0 == SumOf(blocks, "x0", 1)
        s1 == SumOf(blocks, "x1", 1)
    IN  IF n = 0 THEN "LEFT"
        ELSE IF Abs(s0 + s1 - n * page_width) < 40 * n THEN "CENTER"
        ELSE IF 5 * s1 > 4 * n * page_width THEN "RIGHT"
        ELSE IF 10 * (s1 - s0) > 7 * n * page_width THEN "JUSTIFIED"
        ELSE "LEFT"

\* A quotient num / den of two integers, den > 0, kept exact.
Ratio(num, den) == [num |-> num, den |-> den]

\* spacings: sorted_blocks[i + 1].y0 - sorted_blocks[i].y1 where positive.
RECURSIVE Spacings(_, _)
Spacings(sorted_blocks, i) ==
    IF i >= Len(sorted_blocks) THEN <<>>
    ELSE LET spacing == sorted_blocks[i + 1].y0 - sorted_blocks[i].y1
         IN  (IF spacing > 0 THEN <<spacing>> ELSE <<>>) \o Spacings(sorted_blocks, i + 1)

RECURSIVE SumSeq(_, _)
SumSeq(list, i) == IF i > Len(list) THEN 0 ELSE list[i] + SumSeq(list, i + 1)

calculate_line_spacing_keep_all(blocks) ==
    IF Len(blocks) < 2 THEN Ratio(0, 1)
    ELSE LET sorted_blocks == sorted(blocks, "y0")
             spacings == [i \in 1..(Len(blocks) - 1) |->
                            sorted_blocks[i + 1].y0 - sorted_blocks[i].y1]
         IN  Ratio(SumSeq(spacings, 1), Len(spacings))

calculate_line_spacing(blocks) ==
    IF Len(blocks) < 2 THEN Ratio(0, 1)
    ELSE LET spacings == Spacings(sorted(blocks, "y0"), 1)
         IN  IF spacings # <<>> THEN Ratio(SumSeq(spacings, 1), Len(spacings))
             ELSE Ratio(0, 1)

RECURSIVE ColumnsFromGe(_, _, _, _, _)
ColumnsFromGe(sorted_regions, i, columns, current_column, column_gap) ==
    IF i > Len(sorted_regions) THEN Append(columns, current_column)
    ELSE IF sorted_regions[i].x0 - sorted_regions[i - 1].x1 >= column_gap
         THEN ColumnsFromGe(sorted_regions, i + 1, Append(columns, current_column),
                            <<sorted_regions[i]>>, column_gap)
         ELSE ColumnsFromGe(sorted_regions, i + 1, columns,
                            Append(current_column, sorted_regions[i]), column_gap)

\* The loop of get_column_structure over sorted_regions[i], ...: columns are
\* the closed columns, current_column the open one.
RECURSIVE ColumnsFrom(_, _, _, _, _)
ColumnsFrom(sorted_regions, i, columns, current_column, column_gap) ==
    IF i > Len(sorted_regions) THEN Append(columns, current_column)
    ELSE IF sorted_regions[i].x0 - sorted_regions[i - 1].x1 > column_gap
         THEN ColumnsFrom(sorted_regions, i + 1, Append(columns, current_column),
                          <<sorted_regions[i]>>, column_gap)
         ELSE ColumnsFrom(sorted_regions, i + 1, columns,
                          Append(current_column, sorted_regions[i]), column_gap)

get_column_structure(regs, page_number, column_gap) ==
    LET list == get_regions_on_page(regs, page_number)
        sorted_regions == sorted(list, "x0")
    IN  IF list = <<>> THEN <<>>
        ELSE ColumnsFrom(sorted_regions, 2, <<>>, <<sorted_regions[1]>>, column_gap)

\* Number of blocks held by the mapper.
RECURSIVE SumLen(_, _)
SumLen(list, i) ==
    IF i > Len(list) THEN 0 ELSE Len(list[i].text_blocks) + SumLen(list, i + 1)

RECURSIVE MemberCountFrom(_, _)
MemberCountFrom(regs, i) ==
    IF i > Len(regs) THEN 0 ELSE SumLen(regs[i].value, 1) + MemberCountFrom(regs, i + 1)

MemberCount(regs) == MemberCountFrom(regs, 1)

-----------------------------------------------------------------------------
(* RenderOptions (rendering/pdf_renderer.py).                              *)

RenderOptions(font_name, font_size, color, align, overlay) ==
    [font_name |-> font_name, font_size |-> font_size, color |-> color,
     align |-> align, overlay |-> overlay]

\* RenderOptions(): the dataclass defaults.
DefaultRenderOptions == RenderOptions("helv", 12, <<0, 0, 0>>, 0, TRUE)

\* font_map, in the order the dict literal lists it.
font_map ==
    << [key |-> <<"T", "i", "m", "e", "s">>, value |-> "times"],
       [key |-> <<"T", "i", "m", "e", "s", "N", "e", "w", "R", "o", "m", "a", "n">>, value |-> "times"],
       [key |-> <<"H", "e", "l", "v", "e", "t", "i", "c", "a">>, value |-> "helv"],
       [key |-> <<"C", "o", "u", "r", "i", "e", "r">>, value |-> "cour"],
       [key |-> <<"S", "y", "m", "b", "o", "l">>, value |-> "symb"],
       [key |-> <<"Z", "a", "p", "f", "D", "i", "n", "g", "b", "a", "t", "s">>, value |-> "zadb"] >>

\* for key, value in font_map.items(): if key.lower() in name.lower(): ...; break
RECURSIVE MapFontNameCaseSensitive(_, _)
MapFontNameCaseSensitive(name, i) ==
    IF i > Len(font_map) THEN "helv"
    ELSE IF StrIn(font_map[i].key, name) THEN font_map[i].value
         ELSE MapFontNameCaseSensitive(name, i + 1)

RECURSIVE MapFontName(_, _)
MapFontName(name, i) ==
    IF i > Len(font_map) THEN "helv"
    ELSE IF StrIn(Lower(font_map[i].key), Lower(name)) THEN font_map[i].value
         ELSE MapFontName(name, i + 1)

from_font_info(font_info, align) ==
    RenderOptions(MapFontName(font_info.name, 1), font_info.size, font_info.color, align, TRUE)

from_text_block(text_block, align) ==
    RenderOptions(MapFontName(text_block.font_name, 1), text_block.font_size,
                  text_block.color, align, TRUE)

-----------------------------------------------------------------------------
(* The PDF engine, as PDFRenderer drives it.                               *)

\* What the engine answers to one text insertion: a status, or an exception.
EngineOutcomes ==
    {[raised |-> FALSE, rc |-> 0], [raised |-> FALSE, rc |-> -1], [raised |-> TRUE, rc |-> 0]}

EngineOk == [raised |-> FALSE, rc |-> 0]

\* A command issued on a page of the document handle.  Every field is
\* present in every command; a command leaves the fields it does not pass
\* at the values of NoCmd.
NoCmd ==
    [cmd |-> "none", page |-> 0, rect |-> <<0, 0, 0, 0>>, point |-> <<0, 0>>,
     text |-> <<>>, fontname |-> "", fontsize |-> 0, color |-> <<0, 0, 0>>,
     fill |-> <<0, 0, 0>>, align |-> 0, overlay |-> TRUE, rc |-> 0, raised |-> FALSE]

\* page.draw_rect(rect=..., color=(1, 1, 1), fill=(1, 1, 1), overlay=False)
DrawRectCmd(page, rect, overlay) ==
    [NoCmd EXCEPT !.cmd = "draw_rect", !.page = page, !.rect = rect,
                  !.color = <<1, 1, 1>>, !.fill = <<1, 1, 1>>, !.overlay = overlay]

\* page.insert_text(point=(x, y), text=..., fontname=..., fontsize=..., color=..., overlay=...)
InsertTextCmd(page, point, text, opts, eng) ==
    [NoCmd EXCEPT !.cmd = "insert_text", !.page = page, !.point = point, !.text = text,
                  !.fontname = opts.font_name, !.fontsize = opts.font_size,
                  !.color = opts.color, !.overlay = opts.overlay,
                  !.rc = eng.rc, !.raised = eng.raised]

\* page.insert_textbox(rect=..., buffer=..., fontname=..., ..., align=..., overlay=...)
InsertTextboxCmd(page, rect, text, opts, eng) ==
    [NoCmd EXCEPT !.cmd = "insert_textbox", !.page = page, !.rect = rect, !.text = text,
                  !.fontname = opts.font_name, !.fontsize = opts.font_size,
                  !.color = opts.color, !.align = opts.align, !.overlay = opts.overlay,
                  !.rc = eng.rc, !.raised = eng.raised]

\* page.add_highlight_annot(quads=...); set_colors(stroke=color); update()
HighlightCmd(page, rect, color) ==
    [NoCmd EXCEPT !.cmd = "add_highlight_annot", !.page = page, !.rect = rect,
                  !.color = color]

\* document.save(save_path, garbage=4, deflate=True, clean=True): one write
\* of the whole in-memory document (the call is never incremental).
SaveCmd(path) ==
    [path |-> path, garbage |-> 4, deflate |-> TRUE, clean |-> TRUE]

-----------------------------------------------------------------------------
(* PDFRenderer (rendering/pdf_renderer.py).  Each operation is a function  *)
(* of the renderer's document reference, the commands c the running call   *)
(* has issued so far and the saves w issued so far; it yields the new c    *)
(* and w and what the operation returns or raises.                         *)

Effect(c, w, ok, count, exc) ==
    [cmds |-> c, writes |-> w, ok |-> ok, count |-> count, exc |-> exc]

Raise(c, w, exc) == Effect(c, w, "None", 0, exc)

PyBool(b) == IF b THEN "True" ELSE "False"

\* `x or y` for Optional[str]: None and "" are falsy.
StrOr(x, y) == IF IsNone(x) \/ Val(x) = <<>> THEN y ELSE Val(x)

\* PDFRenderer.__init__: self.output_path = output_path or pdf_path
RendererInitOutputPath(pdf_path, output_path_arg) == StrOr(output_path_arg, pdf_path)

\* `if not self.document: raise RuntimeError(...)`, the first statement of
\* every operation.  self.document is None before the first __enter__;
\* __exit__ closes the handle but keeps the reference, so afterwards the
\* test is applied to a closed engine handle: whether that handle is falsy,
\* truthy (the engine then refuses the closed handle at its first use) or
\* refuses even the truth test is the engine's choice (`truth`).
ClosedHandleTruth == {"falsy", "truthy", "refuses"}

Guard(doc, truth) ==
    IF doc = "None" THEN "RuntimeError"
    ELSE IF doc = "closed"
         THEN IF truth = "falsy" THEN "RuntimeError" ELSE "ValueError"
         ELSE "none"

\* self.document[page_number]
PageExists(page_number) == page_number \in 0..(NumPages - 1)

insert_text_gt(doc, c, w, truth, page_number, text, x, y, options, eng) ==
    IF Guard(doc, truth) # "none" THEN Raise(c, w, Guard(doc, truth))
    ELSE IF page_number > NumPages THEN Effect(c, w, "False", 0, "none")
    ELSE IF ~PageExists(page_number) THEN Raise(c, w, "IndexError")
    ELSE LET opts == IF IsNone(options) THEN DefaultRenderOptions ELSE Val(options)
             c2 == Append(c, InsertTextCmd(page_number, <<x, y>>, text, opts, eng))
         IN  IF eng.raised THEN Raise(c2, w, "EngineError")
             ELSE Effect(c2, w, PyBool(eng.rc >= 0), 0, "none")

insert_text(doc, c, w, truth, page_number, text, x, y, options, eng) ==
    IF Guard(doc, truth) # "none" THEN Raise(c, w, Guard(doc, truth))
    ELSE IF page_number >= NumPages THEN Effect(c, w, "False", 0, "none")
    ELSE LET opts == IF IsNone(options) THEN DefaultRenderOptions ELSE Val(options)
             c2 == Append(c, InsertTextCmd(page_number, <<x, y>>, text, opts, eng))
         IN  IF eng.raised THEN Raise(c2, w, "EngineError")
             ELSE Effect(c2, w, PyBool(eng.rc >= 0), 0, "none")

insert_textbox(doc, c, w, truth, page_number, text, rect, options, eng) ==
    IF Guard(doc, truth) # "none" THEN Raise(c, w, Guard(doc, truth))
    ELSE IF page_number >= NumPages THEN Effect(c, w, "False", 0, "none")
    ELSE LET opts == IF IsNone(options) THEN DefaultRenderOptions ELSE Val(options)
             c2 == Append(c, InsertTextboxCmd(page_number, rect, text, opts, eng))
         IN  IF eng.raised THEN Raise(c2, w, "EngineError")
             ELSE Effect(c2, w, PyBool(eng.rc >= 0), 0, "none")

BlockRect(b) == <<b.x0, b.y0, b.x1, b.y1>>

replace_text_block_no_baseline(doc, c, w, truth, text_block, new_text, options, eng) ==
    IF Guard(doc, truth) # "none" THEN Raise(c, w, Guard(doc, truth))
    ELSE IF ~PageExists(text_block.page_number) THEN Raise(c, w, "IndexError")
    ELSE LET c2 == Append(c, DrawRectCmd(text_block.page_number, BlockRect(text_block), FALSE))
             opts == IF IsNone(options) THEN Some(from_text_block(text_block, 0)) ELSE options
         IN  insert_text(doc, c2, w, truth, text_block.page_number, new_text,
                         text_block.x0, text_block.y0, opts, eng)

replace_text_block(doc, c, w, truth, text_block, new_text, options, eng) ==
    IF Guard(doc, truth) # "none" THEN Raise(c, w, Guard(doc, truth))
    ELSE IF ~PageExists(text_block.page_number) THEN Raise(c, w, "IndexError")
    ELSE LET c2 == Append(c, DrawRectCmd(text_block.page_number, BlockRect(text_block), FALSE))
             opts == IF IsNone(options) THEN Some(from_text_block(text_block, 0)) ELSE options
         IN  insert_text(doc, c2, w, truth, text_block.page_number, new_text,
                         text_block.x0, text_block.y0 + text_block.font_size, opts, eng)

remove_text_block(doc, c, w, truth, text_block) ==
    IF Guard(doc, truth) # "none" THEN Raise(c, w, Guard(doc, truth))
    ELSE IF ~PageExists(text_block.page_number) THEN Raise(c, w, "IndexError")
    ELSE Effect(Append(c, DrawRectCmd(text_block.page_number, BlockRect(text_block), FALSE)),
                w, "True", 0, "none")

highlight_text_block(doc, c, w, truth, text_block, color) ==
    IF Guard(doc, truth) # "none" THEN Raise(c, w, Guard(doc, truth))
    ELSE IF ~PageExists(text_block.page_number) THEN Raise(c, w, "IndexError")
    ELSE Effect(Append(c, HighlightCmd(text_block.page_number, BlockRect(text_block), color)),
                w, "True", 0, "none")

save_to_input(doc, c, w, truth, path, out_path) ==
    IF Guard(doc, truth) # "none" THEN Raise(c, w, Guard(doc, truth))
    ELSE Effect(c, Append(w, SaveCmd(InPath)), "None", 0, "none")

save(doc, c, w, truth, path, out_path) ==
    IF Guard(doc, truth) # "none" THEN Raise(c, w, Guard(doc, truth))
    ELSE Effect(c, Append(w, SaveCmd(StrOr(path, out_path))), "None", 0, "none")

get_page_count(doc, c, w, truth) ==
    IF Guard(doc, truth) # "none" THEN Raise(c, w, Guard(doc, truth))
    ELSE Effect(c, w, "None", NumPages, "none")

\* __exit__: if self.document: self.document.close().  The reference stays.
ExitKeepsOpen(doc) == doc

Exit(doc) == IF doc = "open" THEN "closed" ELSE doc

-----------------------------------------------------------------------------
(* Python str operations on character tuples.                              *)

Digits == {"0", "1", "2", "3", "4", "5", "6", "7", "8", "9"}

ToUpper ==
    [c \in {LowerLetters[i] : i \in 1..Len(LowerLetters)} |->
        UpperLetters[CHOOSE i \in 1..Len(LowerLetters) : LowerLetters[i] = c]]

IsUpperChar(c) == c \in DOMAIN ToLower
IsLowerChar(c) == c \in DOMAIN ToUpper
IsAlphaChar(c) == IsUpperChar(c) \/ IsLowerChar(c)

\* \w of the re module (ASCII letters, digits, underscore).
IsWordChar(c) == IsAlphaChar(c) \/ c \in Digits \/ c = "_"

UpperChar(c) == IF IsLowerChar(c) THEN ToUpper[c] ELSE c

\* str.isalpha, str.isupper, str.upper, str.capitalize
isalpha(s) == Len(s) > 0 /\ \A i \in 1..Len(s) : IsAlphaChar(s[i])
isupper(s) == (\E i \in 1..Len(s) : IsUpperChar(s[i])) /\ ~(\E i \in 1..Len(s) : IsLowerChar(s[i]))
upper(s) == [i \in 1..Len(s) |-> UpperChar(s[i])]
capitalize(s) == [i \in 1..Len(s) |-> IF i = 1 THEN UpperChar(s[i]) ELSE LowerChar(s[i])]

\* s.startswith(old, i - 1): old occurs in s at index i.
OccursAt(s, old, i) ==
    /\ i + Len(old) - 1 <= Len(s)
    /\ \A k \in 1..Len(old) : s[i + k - 1] = old[k]

\* str.replace(old, new) from index i on: every non-overlapping occurrence,
\* left to right; an empty old matches before every character and at the end.
RECURSIVE ReplaceFrom(_, _, _, _)
ReplaceFrom(s, old, new, i) ==
    IF old = <<>>
    THEN IF i > Len(s) THEN new ELSE new \o <<s[i]>> \o ReplaceFrom(s, old, new, i + 1)
    ELSE IF i > Len(s) THEN <<>>
         ELSE IF OccursAt(s, old, i)
              THEN new \o ReplaceFrom(s, old, new, i + Len(old))
              ELSE <<s[i]>> \o ReplaceFrom(s, old, new, i + 1)

\* str.replace(old, new, 1): the first occurrence only.
RECURSIVE ReplaceFirstFrom(_, _, _, _)
ReplaceFirstFrom(s, old, new, i) ==
    IF i > Len(s) + 1 THEN s
    ELSE IF OccursAt(s, old, i)
         THEN SubSeq(s, 1, i - 1) \o new \o SubSeq(s, i + Len(old), Len(s))
         ELSE ReplaceFirstFrom(s, old, new, i + 1)

str_replace_first(s, old, new) == ReplaceFirstFrom(s, old, new, 1)

str_replace(s, old, new) == ReplaceFrom(s, old, new, 1)

-----------------------------------------------------------------------------
(* SpellChecker (utils/text_utils.py).                                     *)

\* TextBlob(word).correct(): the spelling engine's best suggestion, the
\* word itself when it has none.  This engine knows one misspelling.
BlobCorrect(word) ==
    IF Lower(word) = <<"t", "e", "h">> THEN <<"t", "h", "e">> ELSE word

correct_word(word, dictionary) ==
    IF Lower(word) \in dictionary THEN word
    ELSE IF ~isalpha(word) THEN word
    ELSE LET corrected == BlobCorrect(word)
         IN  IF isupper(word) THEN upper(corrected)
             ELSE IF Len(word) > 0 /\ IsUpperChar(word[1]) THEN capitalize(corrected)
             ELSE corrected

\* The end of the match of \b\w+\b that starts at i: the maximal run of word characters.
WordEnd(text, i) ==
    CHOOSE j \in i..Len(text) :
        /\ \A k \in i..j : IsWordChar(text[k])
        /\ (j = Len(text) \/ ~IsWordChar(text[j + 1]))

\* re.sub(r'\b\w+\b', replace_word, text), from index i on.
RECURSIVE CorrectFrom(_, _, _)
CorrectFrom(text, i, dictionary) ==
    IF i > Len(text) THEN <<>>
    ELSE IF ~IsWordChar(text[i])
         THEN <<text[i]>> \o CorrectFrom(text, i + 1, dictionary)
         ELSE correct_word(SubSeq(text, i, WordEnd(text, i)), dictionary)
                \o CorrectFrom(text, WordEnd(text, i) + 1, dictionary)

correct_text(text, dictionary) == CorrectFrom(text, 1, dictionary)

\* SpellChecker.__init__: self.custom_dictionary = set(custom_dictionary or [])
SpellCheckerInit(words) == {words[i] : i \in 1..Len(words)}

check_word(word, dictionary) ==
    IF Lower(word) \in dictionary THEN TRUE
    ELSE IF ~isalpha(word) THEN TRUE
    ELSE Lower(word) = Lower(BlobCorrect(word))

\* One element of the list check_text returns: (word, match.start(), match.end()).
Mistake(word, start, end) == [word |-> word, start |-> start, end |-> end]

\* The loop of check_text over the matches of \b\w+\b from index i on.
RECURSIVE MistakesFrom(_, _, _)
MistakesFrom(text, i, dictionary) ==
    IF i > Len(text) THEN <<>>
    ELSE IF ~IsWordChar(text[i]) THEN MistakesFrom(text, i + 1, dictionary)
    ELSE LET j == WordEnd(text, i)
             word == SubSeq(text, i, j)
             rest == MistakesFrom(text, j + 1, dictionary)
         IN  IF ~check_word(word, dictionary)
             THEN <<Mistake(word, i - 1, j)>> \o rest
             ELSE rest

check_text(text, dictionary) == MistakesFrom(text, 1, dictionary)

\* self.custom_dictionary.add(word.lower())
add_to_dictionary(dictionary, word) == dictionary \cup {Lower(word)}

\* self.custom_dictionary.discard(word.lower())
remove_from_dictionary(dictionary, word) == dictionary \ {Lower(word)}

-----------------------------------------------------------------------------
(* TextModifier (utils/text_utils.py).  A result is Returned(0, text) or   *)
(* Raised("ValueError").                                                   *)

TextResult(value) == [exc |-> "none", count |-> 0, value |-> value]
TextError == [exc |-> "ValueError", count |-> 0, value |-> <<>>]

\* s[:k] and s[k:] for 0 <= k <= len(s)
Prefix(s, k) == SubSeq(s, 1, k)
Suffix(s, k) == SubSeq(s, k + 1, Len(s))

modifier_insert_text(original, text_to_insert, position) ==
    IF position < 0 \/ position > Len(original) THEN TextError
    ELSE TextResult(Prefix(original, position) \o text_to_insert \o Suffix(original, position))

replace_at_position_unordered(original, new_text, start, end) ==
    IF start < 0 \/ end > Len(original) \/ start > Len(original) \/ end < 0 THEN TextError
    ELSE TextResult(Prefix(original, start) \o new_text \o Suffix(original, end))

replace_at_position(original, new_text, start, end) ==
    IF start < 0 \/ end > Len(original) \/ start > end THEN TextError
    ELSE TextResult(Prefix(original, start) \o new_text \o Suffix(original, end))

delete_text(original, start, end) ==
    IF start < 0 \/ end > Len(original) \/ start > end THEN TextError
    ELSE TextResult(Prefix(original, start) \o Suffix(original, end))

-----------------------------------------------------------------------------
(* TextExtractor (extraction/text_extractor.py) and FontDetector           *)
(* (font/font_detector.py), inside their scope.  `spans` is what the       *)
(* engine emits for the file, one TextBlock per span.                      *)

Returned(c, v) == [exc |-> "none", count |-> c, value |-> v]
Raised(exc) == [exc |-> exc, count |-> 0, value |-> <<>>]

OnPage(spans, page_number) ==
    SelectSeq(spans, LAMBDA b : b.page_number = page_number)

\* pages = [self.document[page_number]] if page_number is not None else self.document
PagesRaise(page_number) == ~IsNone(page_number) /\ ~PageExists(Val(page_number))

SpansOf(spans, page_number) ==
    IF IsNone(page_number) THEN spans ELSE OnPage(spans, Val(page_number))

extract_text_blocks(spans, page_number) ==
    IF PagesRaise(page_number) THEN Raised("IndexError")
    ELSE Returned(0, SpansOf(spans, page_number))

\* page.get_text(): the texts of the page's spans, in emission order.
extract_text(spans, page_number) ==
    IF PagesRaise(page_number) THEN Raised("IndexError")
    ELSE LET on == SpansOf(spans, page_number)
         IN  Returned(0, [i \in 1..Len(on) |-> on[i].text])

extractor_get_page_count == Returned(NumPages, <<>>)

PageSize == <<612, 792>>

get_page_dimensions(page_number) ==
    IF ~PageExists(page_number) THEN Raised("IndexError") ELSE Returned(0, PageSize)

Bit(flags, n) == (flags \div (2 ^ n)) % 2 = 1

\* FontInfo.from_span
from_span(span) ==
    [name |-> span.font_name, size |-> span.font_size, flags |-> span.font_flags,
     is_bold |-> Bit(span.font_flags, 4), is_italic |-> Bit(span.font_flags, 1),
     is_monospace |-> Bit(span.font_flags, 0), is_serif |-> Bit(span.font_flags, 3),
     color |-> span.color]

FontKey(span) == <<span.font_name, span.font_size, span.font_flags>>

RECURSIVE CountFontsBySpans(_, _, _)
CountFontsBySpans(font_counts, spans, i) ==
    IF i > Len(spans) THEN font_counts
    ELSE LET key == <<spans[i].font_name, spans[i].font_size, spans[i].font_flags>>
             entry == DictGet(font_counts, key, [count |-> 0, info |-> from_span(spans[i])])
         IN  CountFontsBySpans(DictSet(font_counts, key, [entry EXCEPT !.count = @ + 1]),
                               spans, i + 1)

\* The aggregation loop of get_dominant_font over spans i, i+1, ...
RECURSIVE CountFonts(_, _, _)
CountFonts(font_counts, spans, i) ==
    IF i > Len(spans) THEN font_counts
    ELSE LET key == FontKey(spans[i])
             entry == DictGet(font_counts, key, [count |-> 0, info |-> from_span(spans[i])])
         IN  CountFonts(DictSet(font_counts, key,
                                [entry EXCEPT !.count = @ + Len(spans[i].text)]),
                        spans, i + 1)

\* The last entry with the greatest count.
LastMax(font_counts) ==
    LET best == CHOOSE i \in 1..Len(font_counts) :
                    /\ \A j \in 1..Len(font_counts) :
                          font_counts[j].value.count <= font_counts[i].value.count
                    /\ \A j \in (i + 1)..Len(font_counts) :
                          font_counts[j].value.count < font_counts[i].value.count
    IN  font_counts[best]

\* max(font_counts.items(), key=count): the first entry with the greatest count.
FirstMax(font_counts) ==
    LET best == CHOOSE i \in 1..Len(font_counts) :
                    /\ \A j \in 1..Len(font_counts) :
                          font_counts[j].value.count <= font_counts[i].value.count
                    /\ \A j \in 1..(i - 1) :
                          font_counts[j].value.count < font_counts[i].value.count
    IN  font_counts[best]

get_dominant_font(spans, page_number) ==
    IF PagesRaise(page_number) THEN Raised("IndexError")
    ELSE LET font_counts == CountFonts(<<>>, SpansOf(spans, page_number), 1)
         IN  IF font_counts = <<>> THEN Returned(0, None)
             ELSE Returned(0, Some(FirstMax(font_counts).value.info))

\* The loop of get_unique_fonts over spans i, i+1, ...
RECURSIVE UniqueFonts(_, _, _, _)
UniqueFonts(fonts_set, unique_fonts, spans, i) ==
    IF i > Len(spans) THEN unique_fonts
    ELSE IF FontKey(spans[i]) \in fonts_set
         THEN UniqueFonts(fonts_set, unique_fonts, spans, i + 1)
         ELSE UniqueFonts(fonts_set \cup {FontKey(spans[i])},
                          Append(unique_fonts, from_span(spans[i])), spans, i + 1)

get_unique_fonts(spans, page_number) ==
    IF PagesRaise(page_number) THEN Raised("IndexError")
    ELSE Returned(0, UniqueFonts({}, <<>>, SpansOf(spans, page_number), 1))

\* __exit__ of TextExtractor and of FontDetector: if self.document: self.document.close()
ExtractorExit(doc) == IF doc = "open" THEN "closed" ELSE doc
DetectorExit(doc) == IF doc = "open" THEN "closed" ELSE doc

-----------------------------------------------------------------------------
(* PDFEditor (pdf_editor.py).  An operation is a function of the editor    *)
(* state st = [text_blocks, regions, writes, handles] and of the file's    *)
(* spans; it yields the new state, the commands its renderer session       *)
(* issued and what it returns or raises.                                   *)

EditorState(tb, regs, w, h) ==
    [text_blocks |-> tb, regions |-> regs, writes |-> w, handles |-> h]

EdEffect(st, c, ok, count, result, exc) ==
    [text_blocks |-> st.text_blocks, regions |-> st.regions, writes |-> st.writes,
     handles |-> st.handles, cmds |-> c, ok |-> ok, count |-> count,
     result |-> result, exc |-> exc]

\* `with Component(path) as x: body`: the handle is opened on entry and
\* __exit__ runs on every way out of the body.
\* `exited` is what __exit__ leaves of the open handle.
WithHandle(handles, component, exited) ==
    LET opened == handles \cup {component}
    IN  IF exited = "closed" THEN opened \ {component} ELSE opened

\* The editor's spell checker holds the (empty) custom dictionary it was built with.
EditorDictionary == {}

\* `x or y` for Optional[float] and for Optional[str] given as a plain string.
NumOr(x, y) == IF IsNone(x) \/ Val(x) = 0 THEN y ELSE Val(x)
NameOr(x, y) == IF IsNone(x) \/ Val(x) = "" THEN y ELSE Val(x)

load(st, spans) ==
    LET blocks == extract_text_blocks(spans, None).value
        h == WithHandle(st.handles, "extractor", ExtractorExit("open"))
        regs == IF blocks # <<>> THEN add_text_blocks(st.regions, blocks) ELSE st.regions
    IN  EdEffect(EditorState(Some(blocks), regs, st.writes, h), <<>>, "None", 0, <<>>, "none")

\* if self._text_blocks is None: self.load()
LoadIfNone(st, spans) ==
    IF IsNone(st.text_blocks) THEN load(st, spans)
    ELSE EdEffect(st, <<>>, "None", 0, <<>>, "none")

get_text_blocks(st, spans, page_number) ==
    LET s1 == LoadIfNone(st, spans)
        blocks == Val(s1.text_blocks)
    IN  [s1 EXCEPT !.result = IF IsNone(page_number) THEN blocks
                              ELSE OnPage(blocks, Val(page_number))]

find_text(st, spans, search_text, page_number) ==
    LET s1 == LoadIfNone(st, spans)
    IN  [s1 EXCEPT !.result = find_blocks_by_text(s1.regions, search_text, page_number)]

\* One call renderer.replace_text_block(block, new_text, options).
ReplaceCall(block, new_text, options) ==
    [block |-> block, new_text |-> new_text, options |-> options]

\* The state of a batch loop: the commands the session has issued, the
\* count, the pending exception, and the calls made on the renderer.
LoopResult(c, count, exc, calls) ==
    [cmds |-> c, count |-> count, exc |-> exc, calls |-> calls]

RECURSIVE CorrectLoopEveryBlock(_, _, _, _, _, _)
CorrectLoopEveryBlock(blocks, i, c, count, engs, calls) ==
    IF i > Len(blocks) THEN LoopResult(c, count, "none", calls)
    ELSE LET block == blocks[i]
             corrected_text == correct_text(block.text, EditorDictionary)
             options == Some(from_text_block(block, 0))
             r == replace_text_block("open", c, <<>>, "truthy", block, corrected_text,
                                     options, engs[i])
             made == Append(calls, ReplaceCall(block, corrected_text, options))
         IN  IF r.exc # "none" THEN LoopResult(r.cmds, count, r.exc, made)
             ELSE CorrectLoopEveryBlock(blocks, i + 1, r.cmds, count + 1, engs, made)

\* The loop of correct_spelling over blocks i, i+1, ...; engs[i] is the
\* engine's answer to the insertion for block i.
RECURSIVE CorrectLoop(_, _, _, _, _, _)
CorrectLoop(blocks, i, c, count, engs, calls) ==
    IF i > Len(blocks) THEN LoopResult(c, count, "none", calls)
    ELSE LET block == blocks[i]
             corrected_text == correct_text(block.text, EditorDictionary)
         IN  IF corrected_text # block.text
             THEN LET options == Some(from_text_block(block, 0))
                      r == replace_text_block("open", c, <<>>, "truthy", block,
                                              corrected_text, options, engs[i])
                      made == Append(calls, ReplaceCall(block, corrected_text, options))
                  IN  IF r.exc # "none" THEN LoopResult(r.cmds, count, r.exc, made)
                      ELSE CorrectLoop(blocks, i + 1, r.cmds, count + 1, engs, made)
             ELSE CorrectLoop(blocks, i + 1, c, count, engs, calls)

\* The loop of replace_text.
RECURSIVE ReplaceLoop(_, _, _, _, _, _, _, _, _)
ReplaceLoop(blocks, i, c, count, engs, calls, old_text, new_text, preserve_style) ==
    IF i > Len(blocks) THEN LoopResult(c, count, "none", calls)
    ELSE LET block == blocks[i]
             modified_text == str_replace(block.text, old_text, new_text)
         IN  IF modified_text # block.text
             THEN LET options == IF preserve_style THEN Some(from_text_block(block, 0)) ELSE None
                      r == replace_text_block("open", c, <<>>, "truthy", block, modified_text,
                                              options, engs[i])
                      made == Append(calls, ReplaceCall(block, modified_text, options))
                  IN  IF r.exc # "none" THEN LoopResult(r.cmds, count, r.exc, made)
                      ELSE ReplaceLoop(blocks, i + 1, r.cmds, count + 1, engs, made,
                                       old_text, new_text, preserve_style)
             ELSE ReplaceLoop(blocks, i + 1, c, count, engs, calls,
                              old_text, new_text, preserve_style)

\* A session that drops the editor's cache when it has written onto the
\* editor's own file.
BatchSessionRefreshing(st, loop, out) ==
    LET h == WithHandle(st.handles, "renderer", Exit("open"))
        sv == save("open", loop.cmds, st.writes, "truthy", None,
                   RendererInitOutputPath(InPath, Some(out)))
        kept == IF out = InPath THEN [st EXCEPT !.text_blocks = None, !.regions = <<>>] ELSE st
    IN  IF loop.exc # "none"
        THEN EdEffect([st EXCEPT !.handles = h], loop.cmds, "None", 0, loop.calls, loop.exc)
        ELSE EdEffect([kept EXCEPT !.handles = h, !.writes = sv.writes],
                      loop.cmds, "None", loop.count, loop.calls, "none")

\* `with PDFRenderer(self.pdf_path, output_path) as renderer: <loop>; renderer.save()`
\* and `return count`: an exception of the loop leaves the block before save.
\* The calls made on the renderer are kept as the operation's trace.
BatchSession(st, loop, out) ==
    LET h == WithHandle(st.handles, "renderer", Exit("open"))
        sv == save("open", loop.cmds, st.writes, "truthy", None,
                   RendererInitOutputPath(InPath, Some(out)))
    IN  IF loop.exc # "none"
        THEN EdEffect([st EXCEPT !.handles = h], loop.cmds, "None", 0, loop.calls, loop.exc)
        ELSE EdEffect([st EXCEPT !.handles = h, !.writes = sv.writes],
                      loop.cmds, "None", loop.count, loop.calls, "none")

AsState(eff) == EditorState(eff.text_blocks, eff.regions, eff.writes, eff.handles)

correct_spelling(st, spans, out, page_number, engs) ==
    LET s1 == get_text_blocks(st, spans, page_number)
    IN  BatchSession(AsState(s1), CorrectLoop(s1.result, 1, <<>>, 0, engs, <<>>), out)

replace_text(st, out, old_text, new_text, page_number, preserve_style, engs) ==
    LET blocks == find_blocks_by_text(st.regions, old_text, page_number)
    IN  BatchSession(st, ReplaceLoop(blocks, 1, <<>>, 0, engs, <<>>, old_text,
                                     new_text, preserve_style), out)

\* PDFEditor.insert_text
editor_insert_text(st, spans, out, page_number, text, x, y, font_size, font_name, eng) ==
    LET dom == get_dominant_font(spans, Some(page_number))
        h1 == WithHandle(st.handles, "detector", DetectorExit("open"))
        options ==
            IF ~IsNone(dom.value) /\ (IsNone(font_size) \/ IsNone(font_name))
            THEN LET o == from_font_info(Val(dom.value), 0)
                 IN  IF ~IsNone(font_size) THEN [o EXCEPT !.font_size = Val(font_size)] ELSE o
            ELSE [DefaultRenderOptions EXCEPT !.font_size = NumOr(font_size, 12),
                                              !.font_name = NameOr(font_name, "helv")]
        h2 == WithHandle(h1, "renderer", Exit("open"))
        r == insert_text("open", <<>>, st.writes, "truthy", page_number, text, x, y,
                         Some(options), eng)
        sv == save("open", r.cmds, st.writes, "truthy", None,
                   RendererInitOutputPath(InPath, Some(out)))
    IN  IF dom.exc # "none"
        THEN EdEffect([st EXCEPT !.handles = h1], <<>>, "None", 0, <<>>, dom.exc)
        ELSE IF r.exc # "none"
             THEN EdEffect([st EXCEPT !.handles = h2], r.cmds, "None", 0, <<>>, r.exc)
             ELSE IF r.ok = "True"
                  THEN EdEffect([st EXCEPT !.handles = h2, !.writes = sv.writes],
                                r.cmds, r.ok, 0, <<>>, "none")
                  ELSE EdEffect([st EXCEPT !.handles = h2], r.cmds, r.ok, 0, <<>>, "none")

\* An operation that only reads through a scoped component.
ScopedQuery(st, component, exited, r) ==
    EdEffect([st EXCEPT !.handles = WithHandle(st.handles, component, exited)],
             <<>>, "None", r.count, r.value, r.exc)

get_fonts(st, spans, page_number) ==
    ScopedQuery(st, "detector", DetectorExit("open"), get_unique_fonts(spans, page_number))

editor_extract_text(st, spans, page_number) ==
    ScopedQuery(st, "extractor", ExtractorExit("open"), extract_text(spans, page_number))

editor_get_page_count(st) ==
    ScopedQuery(st, "extractor", ExtractorExit("open"), extractor_get_page_count)

editor_get_page_dimensions(st, page_number) ==
    ScopedQuery(st, "extractor", ExtractorExit("open"), get_page_dimensions(page_number))

-----------------------------------------------------------------------------
(* The last call.  Every field is present for every operation so that two  *)
(* records are always comparable; fields an operation does not use keep    *)
(* the values of NoCall.                                                   *)

NoCall ==
    [op |-> "init", page |-> None, blocks |-> <<>>, block |-> None,
     text |-> <<>>, new_text |-> <<>>, preserve_style |-> TRUE,
     font_size |-> None, font_name |-> None, engs |-> <<>>,
     options |-> None, path |-> None, eng |-> [raised |-> FALSE, rc |-> 0],
     page_width |-> 0, gap |-> 0, start |-> 0, end |-> 0, align |-> 0,
     result |-> <<>>, ok |-> "None", count |-> 0, exc |-> "none"]

-----------------------------------------------------------------------------
(* Initial state: a fresh LayoutMapper, a fresh PDFEditor and a            *)
(* constructed PDFRenderer.                                                *)

InitCommon ==
    /\ regions = <<>>
    /\ text_blocks = None
    /\ document = "None"
    /\ in_scope = FALSE
    /\ cmds = <<>>
    /\ writes = <<>>
    /\ open_handles = {}

\* No server is running.
InitNoServer ==
    /\ pdf_sessions = <<>>
    /\ disk = <<>>
    /\ requests = <<>>

-----------------------------------------------------------------------------
(* Specification of a LayoutMapper used on its own.                        *)

LM_add_text_blocks ==
    \E blocks \in SeqUpTo(LayoutBlocks, MaxCall) :
        /\ MemberCount(regions) + Len(blocks) <= MaxBlocks
        /\ regions' = add_text_blocks(regions, blocks)
        /\ ret' = [NoCall EXCEPT !.op = "add_text_blocks", !.blocks = blocks]
        /\ UNCHANGED <<custom_dictionary, serverVars, file, text_blocks, document, output_path, in_scope, cmds, writes, open_handles>>

LM_get_regions_on_page ==
    \E page \in 0..(NumPages + 1) :
        /\ ret' = [NoCall EXCEPT !.op = "get_regions_on_page", !.page = Some(page),
                                 !.result = get_regions_on_page(regions, page)]
        /\ UNCHANGED <<custom_dictionary, serverVars, file, regions, text_blocks, document, output_path, in_scope, cmds, writes, open_handles>>

LayoutQueries == {<<"A", "B">>, <<"c">>}
LayoutPages == {None} \cup {Some(p) : p \in 0..NumPages}
ColumnGaps == {20, 25}

LM_find_blocks_by_text ==
    \E search_text \in LayoutQueries, page \in LayoutPages :
        /\ ret' = [NoCall EXCEPT !.op = "find_blocks_by_text", !.text = search_text,
                                 !.page = page,
                                 !.result = find_blocks_by_text(regions, search_text, page)]
        /\ UNCHANGED <<custom_dictionary, serverVars, file, regions, text_blocks, document, output_path, in_scope, cmds, writes, open_handles>>

LM_get_column_structure ==
    \E page \in 0..NumPages, column_gap \in ColumnGaps :
        /\ ret' = [NoCall EXCEPT !.op = "get_column_structure", !.page = Some(page),
                                 !.gap = column_gap,
                                 !.result = get_column_structure(regions, page, column_gap)]
        /\ UNCHANGED <<custom_dictionary, serverVars, file, regions, text_blocks, document, output_path, in_scope, cmds, writes, open_handles>>

InitLayout ==
    /\ InitCommon /\ InitNoServer
    /\ output_path = InPath /\ ret = NoCall /\ file = <<>> /\ custom_dictionary = {}

NextLayout ==
    \/ LM_add_text_blocks
    \/ LM_get_regions_on_page
    \/ LM_find_blocks_by_text
    \/ LM_get_column_structure

SpecLayout == InitLayout /\ [][NextLayout]_vars

-----------------------------------------------------------------------------
(* Specification of a PDFRenderer used on its own: the caller enters the   *)
(* scope, calls operations in any order, inside and outside the scope, and *)
(* leaves it.                                                              *)

bOut == TextBlock(<<"c">>, 0, 10, 20, 20, Helvetica, 12, NumPages, 0)

RenderBlocks == {bC, bOut}
RenderTexts == {<<"x">>}
CustomOptions == RenderOptions("cour", 9, <<1, 0, 0>>, 1, FALSE)
OptionInputs == {None, Some(CustomOptions)}
PathInputs == {None, Some(<<>>), Some(OutPath)}
RenderPages == 0..NumPages
Yellow == <<1, 1, 0>>

\* The engine's choice matters only for a closed handle.
TruthInputs == IF document = "closed" THEN ClosedHandleTruth ELSE {"truthy"}

R_enter ==
    /\ ~in_scope
    /\ document' = "open"
    /\ cmds' = <<>>
    /\ in_scope' = TRUE
    /\ open_handles' = open_handles \cup {"renderer"}
    /\ ret' = [NoCall EXCEPT !.op = "__enter__"]
    /\ UNCHANGED <<custom_dictionary, serverVars, file, regions, text_blocks, output_path, writes>>

\* Leaving the `with` block: __exit__ runs.
LeaveScope ==
    /\ document' = Exit(document)
    /\ in_scope' = FALSE
    /\ open_handles' = IF Exit(document) = "closed"
                       THEN open_handles \ {"renderer"} ELSE open_handles

R_exit ==
    /\ in_scope
    /\ LeaveScope
    /\ ret' = [NoCall EXCEPT !.op = "__exit__"]
    /\ UNCHANGED <<custom_dictionary, serverVars, file, regions, text_blocks, output_path, cmds, writes>>

\* One call of a renderer operation with effect eff.  An exception raised
\* inside the scope either is caught by the body or leaves the `with` block.
RendererCall(call, eff) ==
    /\ Len(eff.writes) <= MaxWrites
    /\ cmds' = eff.cmds
    /\ writes' = eff.writes
    /\ ret' = [call EXCEPT !.ok = eff.ok, !.count = eff.count, !.exc = eff.exc]
    /\ \/ /\ eff.exc # "none" /\ in_scope
          /\ LeaveScope
       \/ UNCHANGED <<document, in_scope, open_handles>>
    /\ UNCHANGED <<custom_dictionary, serverVars, file, regions, text_blocks, output_path>>

R_insert_text ==
    \E page \in RenderPages, text \in RenderTexts, options \in OptionInputs,
       eng \in EngineOutcomes, truth \in TruthInputs :
        RendererCall([NoCall EXCEPT !.op = "insert_text", !.page = Some(page), !.text = text,
                                    !.options = options, !.eng = eng],
                     insert_text(document, <<>>, writes, truth, page, text, 7, 8, options, eng))

R_insert_textbox ==
    \E page \in RenderPages, text \in RenderTexts, options \in OptionInputs,
       eng \in EngineOutcomes, truth \in TruthInputs :
        RendererCall([NoCall EXCEPT !.op = "insert_textbox", !.page = Some(page), !.text = text,
                                    !.options = options, !.eng = eng],
                     insert_textbox(document, <<>>, writes, truth, page, text,
                                    <<1, 2, 30, 40>>, options, eng))

R_replace_text_block ==
    \E block \in RenderBlocks, text \in RenderTexts, options \in OptionInputs,
       eng \in EngineOutcomes, truth \in TruthInputs :
        RendererCall([NoCall EXCEPT !.op = "replace_text_block", !.block = Some(block),
                                    !.text = text, !.options = options, !.eng = eng],
                     replace_text_block(document, <<>>, writes, truth, block, text, options, eng))

R_remove_text_block ==
    \E block \in RenderBlocks, truth \in TruthInputs :
        RendererCall([NoCall EXCEPT !.op = "remove_text_block", !.block = Some(block)],
                     remove_text_block(document, <<>>, writes, truth, block))

R_highlight_text_block ==
    \E block \in RenderBlocks, truth \in TruthInputs :
        RendererCall([NoCall EXCEPT !.op = "highlight_text_block", !.block = Some(block)],
                     highlight_text_block(document, <<>>, writes, truth, block, Yellow))

R_save ==
    \E path \in PathInputs, truth \in TruthInputs :
        RendererCall([NoCall EXCEPT !.op = "save", !.path = path],
                     save(document, <<>>, writes, truth, path, output_path))

R_get_page_count ==
    \E truth \in TruthInputs :
        RendererCall([NoCall EXCEPT !.op = "get_page_count"],
                     get_page_count(document, <<>>, writes, truth))

InitRenderer ==
    /\ InitCommon /\ InitNoServer
    /\ file = <<>>
    /\ custom_dictionary = {}
    /\ \E arg \in PathInputs :
          /\ output_path = RendererInitOutputPath(InPath, arg)
          /\ ret = [NoCall EXCEPT !.op = "__init__", !.path = arg]

NextRenderer ==
    \/ R_enter
    \/ R_exit
    \/ R_insert_text
    \/ R_insert_textbox
    \/ R_replace_text_block
    \/ R_remove_text_block
    \/ R_highlight_text_block
    \/ R_save
    \/ R_get_page_count

SpecRenderer == InitRenderer /\ [][NextRenderer]_vars

-----------------------------------------------------------------------------
(* Specification of a PDFEditor on one file: the caller calls the editor's *)
(* operations in any order; every mutation writes to another file.         *)

e1 == TextBlock(<<"t", "e", "h", " ", "a">>, 0, 10, 20, 20, Helvetica, 12, 0, 0)
e2 == TextBlock(<<"A", "b">>, 3, 12, 23, 22, TimesBold, 10, 0, 1)
e3 == TextBlock(<<"a", " ", "a">>, 0, 10, 20, 20, Helvetica, 12, NumPages - 1, 2)

Docs == {<<>>, <<e1>>, <<e1, e2, e3>>}

EditorPages == {None} \cup {Some(p) : p \in 0..NumPages}
SearchTexts == {<<"a">>, <<"T", "E">>}
OldTexts == {<<"a">>}
NewTexts == {<<"x">>, <<"a">>}
FontSizeInputs == {None, Some(9)}
FontNameInputs == {None, Some("cour")}

\* The engine's answers to the insertions of one batch over n blocks: all
\* accepted, or exactly one refused or failing.
EngineAnswers(n) ==
    {[i \in 1..n |-> EngineOk]} \cup
    {[i \in 1..n |-> IF i = k THEN bad ELSE EngineOk] :
        k \in 1..n, bad \in EngineOutcomes \ {EngineOk}}

Editor == EditorState(text_blocks, regions, writes, open_handles)

EditorCall(call, effect) ==
    \E eff \in {effect} :
        /\ Len(eff.writes) <= MaxWrites
        /\ text_blocks' = eff.text_blocks
        /\ regions' = eff.regions
        /\ cmds' = eff.cmds
        /\ writes' = eff.writes
        /\ open_handles' = eff.handles
        /\ ret' = [call EXCEPT !.ok = eff.ok, !.count = eff.count,
                               !.result = eff.result, !.exc = eff.exc]
        /\ UNCHANGED <<custom_dictionary, serverVars, document, output_path, in_scope, file>>

\* The mapper holds fewer than MaxLoads copies of the file's blocks.
MayLoad == file = <<>> \/ MemberCount(regions) < MaxLoads * Len(file)

E_load ==
    /\ MayLoad
    /\ EditorCall([NoCall EXCEPT !.op = "load"], load(Editor, file))

E_get_text_blocks ==
    \E page \in EditorPages :
        EditorCall([NoCall EXCEPT !.op = "get_text_blocks", !.page = page],
                   get_text_blocks(Editor, file, page))

E_find_text ==
    \E page \in EditorPages, search_text \in SearchTexts :
        EditorCall([NoCall EXCEPT !.op = "find_text", !.page = page, !.text = search_text],
                   find_text(Editor, file, search_text, page))

E_correct_spelling ==
    \E page \in EditorPages :
      \E engs \in EngineAnswers(Len(get_text_blocks(Editor, file, page).result)) :
        EditorCall([NoCall EXCEPT !.op = "correct_spelling", !.page = page,
                                  !.path = Some(OutPath), !.engs = engs],
                   correct_spelling(Editor, file, OutPath, page, engs))

E_replace_text ==
    \E page \in EditorPages, old_text \in OldTexts, new_text \in NewTexts,
       preserve_style \in BOOLEAN :
      \E engs \in EngineAnswers(Len(find_blocks_by_text(regions, old_text, page))) :
        EditorCall([NoCall EXCEPT !.op = "replace_text", !.page = page, !.text = old_text,
                                  !.new_text = new_text, !.preserve_style = preserve_style,
                                  !.path = Some(OutPath), !.engs = engs],
                   replace_text(Editor, OutPath, old_text, new_text, page, preserve_style, engs))

E_insert_text ==
    \E page \in 0..NumPages, text \in RenderTexts, font_size \in FontSizeInputs,
       font_name \in FontNameInputs, eng \in EngineOutcomes :
        EditorCall([NoCall EXCEPT !.op = "insert_text", !.page = Some(page), !.text = text,
                                  !.font_size = font_size, !.font_name = font_name,
                                  !.path = Some(OutPath), !.eng = eng],
                   editor_insert_text(Editor, file, OutPath, page, text, 7, 8,
                                      font_size, font_name, eng))

E_get_fonts ==
    \E page \in EditorPages :
        EditorCall([NoCall EXCEPT !.op = "get_fonts", !.page = page],
                   get_fonts(Editor, file, page))

E_extract_text ==
    \E page \in EditorPages :
        EditorCall([NoCall EXCEPT !.op = "extract_text", !.page = page],
                   editor_extract_text(Editor, file, page))

E_get_page_count ==
    EditorCall([NoCall EXCEPT !.op = "get_page_count"], editor_get_page_count(Editor))

E_get_page_dimensions ==
    \E page \in 0..NumPages :
        EditorCall([NoCall EXCEPT !.op = "get_page_dimensions", !.page = Some(page)],
                   editor_get_page_dimensions(Editor, page))

InitEditor ==
    /\ InitCommon /\ InitNoServer
    /\ file \in Docs
    /\ custom_dictionary = EditorDictionary
    /\ output_path = InPath
    /\ ret = NoCall

NextEditor ==
    \/ E_load
    \/ E_get_text_blocks
    \/ E_find_text
    \/ E_correct_spelling
    \/ E_replace_text
    \/ E_insert_text
    \/ E_get_fonts
    \/ E_extract_text
    \/ E_get_page_count
    \/ E_get_page_dimensions

SpecEditor == InitEditor /\ [][NextEditor]_vars

-----------------------------------------------------------------------------
(* Specification of a PDFEditor whose caller loads, reads the blocks and   *)
(* mutates, writing either to another file or onto the editor's own file.  *)

OutPaths == {OutPath, InPath}

\* The engine's answers to the insertions of one batch over n blocks: all
\* accepted, or the first one refused or failing.
FirstAnswers(n) ==
    {[i \in 1..n |-> IF i = 1 THEN first ELSE EngineOk] : first \in EngineOutcomes}

EP_load ==
    /\ MayLoad
    /\ EditorCall([NoCall EXCEPT !.op = "load"], load(Editor, file))

EP_get_text_blocks ==
    \E page \in EditorPages :
        EditorCall([NoCall EXCEPT !.op = "get_text_blocks", !.page = page],
                   get_text_blocks(Editor, file, page))

EP_correct_spelling ==
    \E page \in EditorPages, out \in OutPaths :
      \E engs \in FirstAnswers(Len(get_text_blocks(Editor, file, page).result)) :
        EditorCall([NoCall EXCEPT !.op = "correct_spelling", !.page = page,
                                  !.path = Some(out), !.engs = engs],
                   correct_spelling(Editor, file, out, page, engs))

EP_replace_text ==
    \E page \in EditorPages, old_text \in OldTexts, new_text \in NewTexts, out \in OutPaths :
      \E engs \in FirstAnswers(Len(find_blocks_by_text(regions, old_text, page))) :
        EditorCall([NoCall EXCEPT !.op = "replace_text", !.page = page, !.text = old_text,
                                  !.new_text = new_text, !.path = Some(out), !.engs = engs],
                   replace_text(Editor, out, old_text, new_text, page, TRUE, engs))

EP_insert_text ==
    \E page \in 0..NumPages, text \in RenderTexts, out \in OutPaths, eng \in EngineOutcomes :
        EditorCall([NoCall EXCEPT !.op = "insert_text", !.page = Some(page), !.text = text,
                                  !.path = Some(out), !.eng = eng],
                   editor_insert_text(Editor, file, out, page, text, 7, 8, None, None, eng))

NextEditorPaths ==
    \/ EP_load
    \/ EP_get_text_blocks
    \/ EP_correct_spelling
    \/ EP_replace_text
    \/ EP_insert_text

SpecEditorPaths == InitEditor /\ [][NextEditorPaths]_vars

-----------------------------------------------------------------------------
(* api_server.py: one uploaded pdf_id and the mutation requests the        *)
(* threaded server handles for it.  A file's content is the set of edits   *)
(* applied to the upload; an edit is named by the request that makes it.   *)
(* A handler is a sequence of steps, and the steps of different requests   *)
(* interleave freely: the module takes no lock.                            *)

Kinds == {"replace-text", "insert-text", "rotate"}

SessionPath == <<"s">>          \* session['filepath']
TempPath == <<"t">>             \* temp_{pdf_id}.pdf
TempRotatedPath == <<"r">>      \* temp_rotated_{pdf_id}.pdf
ServerPaths == {SessionPath, TempPath, TempRotatedPath}

\* temp_output = os.path.join(UPLOAD_FOLDER, f"temp_{pdf_id}.pdf")
temp_output(kind) == IF kind = "rotate" THEN TempRotatedPath ELSE TempPath

\* A file: the edits its document holds, whether it is a whole PDF, the
\* requests writing it and whether two of them wrote it at once.
DiskFile(edits, ok, writers, raced) ==
    [exists |-> TRUE, edits |-> edits, ok |-> ok, writers |-> writers, raced |-> raced]

NoFile == [exists |-> FALSE, edits |-> {}, ok |-> FALSE, writers |-> {}, raced |-> FALSE]

\* fitz.open(path) returns a document: the file is there and is a whole PDF.
Opens(f) == f.exists /\ f.ok /\ f.writers = {}

\* The session's editor: PDFEditor(filepath), loaded or not.
SessionEditor(loaded, edits) == [loaded |-> loaded, edits |-> edits]

\* The request at step `pc` of its handler, holding the document `doc`.
Request(kind, pc, doc, status) == [kind |-> kind, pc |-> pc, doc |-> doc, status |-> status]

Handling(i, pc) == i \in 1..Len(requests) /\ requests[i].pc = pc

\* return jsonify(...) with the status given
Respond(i, status) ==
    requests' = [requests EXCEPT ![i] = Request(requests[i].kind, "done", requests[i].doc, status)]

Goto(i, pc, doc) ==
    requests' = [requests EXCEPT ![i] = Request(requests[i].kind, pc, doc, "handling")]

otherVars ==
    <<regions, text_blocks, document, output_path, in_scope, cmds, writes, open_handles,
      ret, file, custom_dictionary>>

\* A request for the pdf_id arrives; it passes the checks of its arguments.
S_request ==
    \E kind \in Kinds :
        /\ Len(requests) < MaxRequests
        /\ requests' = Append(requests,
                              Request(kind,
                                      IF kind = "replace-text" THEN "get_text_blocks" ELSE "open",
                                      {}, "handling"))
        /\ UNCHANGED <<otherVars, pdf_sessions, disk>>

\* replace_text: blocks = editor.get_text_blocks(page_number), which loads
\* the editor on demand.
S_get_text_blocks ==
    \E i \in 1..MaxRequests :
        /\ Handling(i, "get_text_blocks")
        /\ IF pdf_sessions.editor.loaded
             THEN Goto(i, "open", {}) /\ UNCHANGED pdf_sessions
             ELSE IF Opens(disk[pdf_sessions.filepath])
                    THEN /\ pdf_sessions' =
                              [pdf_sessions EXCEPT
                                 !.editor = SessionEditor(TRUE, disk[pdf_sessions.filepath].edits)]
                         /\ Goto(i, "open", {})
                    ELSE Respond(i, "error") /\ UNCHANGED pdf_sessions
        /\ UNCHANGED <<otherVars, disk>>

\* The renderer, or fitz.open(session['filepath']) in rotate_page, opens the
\* session's file and the edit is made in the open document.
S_open ==
    \E i \in 1..MaxRequests :
        /\ Handling(i, "open")
        /\ IF Opens(disk[pdf_sessions.filepath])
             THEN Goto(i, "save", disk[pdf_sessions.filepath].edits \cup {i})
             ELSE Respond(i, "error")
        /\ UNCHANGED <<otherVars, pdf_sessions, disk>>

\* doc.save(temp_output) starts to write the file.
S_save ==
    \E i \in 1..MaxRequests :
        /\ Handling(i, "save")
        /\ LET path == temp_output(requests[i].kind)
               f == disk[path]
           IN  disk' = [disk EXCEPT ![path] =
                          DiskFile({}, FALSE, f.writers \cup {i}, f.writers # {})]
        /\ Goto(i, "saving", requests[i].doc)
        /\ UNCHANGED <<otherVars, pdf_sessions>>

\* Request i is the last writer of a file that two requests wrote at once.
RacedAlone(i) == \E path \in ServerPaths : disk[path].writers = {i} /\ disk[path].raced

\* doc.save(temp_output) returns.  The bytes went to the file the request
\* opened, wherever os.replace has moved it since; a file two requests
\* wrote at once is this request's document or no PDF at all.
S_saving ==
    \E i \in 1..MaxRequests :
      \E whole \in (IF RacedAlone(i) THEN BOOLEAN ELSE {TRUE}) :
        /\ Handling(i, "saving")
        /\ LET held == {path \in ServerPaths : i \in disk[path].writers}
           IN  disk' = [path \in ServerPaths |->
                          IF path \in held
                            THEN LET f == disk[path]
                                 IN  IF f.writers # {i}
                                       THEN DiskFile({}, FALSE, f.writers \ {i}, TRUE)
                                       ELSE IF f.raced /\ ~whole
                                              THEN DiskFile({}, FALSE, {}, TRUE)
                                              ELSE DiskFile(requests[i].doc, TRUE, {}, f.raced)
                            ELSE disk[path]]
        /\ Goto(i, "exists", requests[i].doc)
        /\ UNCHANGED <<otherVars, pdf_sessions>>

\* if os.path.exists(temp_output): ... else the success response
S_exists ==
    \E i \in 1..MaxRequests :
        /\ Handling(i, "exists")
        /\ IF disk[temp_output(requests[i].kind)].exists
             THEN Goto(i, "replace", requests[i].doc)
             ELSE Respond(i, "ok")
        /\ UNCHANGED <<otherVars, pdf_sessions, disk>>

\* os.replace(temp_output, session['filepath'])
S_replace ==
    \E i \in 1..MaxRequests :
        /\ Handling(i, "replace")
        /\ LET path == temp_output(requests[i].kind)
           IN  IF disk[path].exists
                 THEN /\ disk' = [disk EXCEPT ![pdf_sessions.filepath] = disk[path],
                                              ![path] = NoFile]
                      /\ Goto(i, "reload", requests[i].doc)
                 ELSE Respond(i, "error") /\ UNCHANGED disk
        /\ UNCHANGED <<otherVars, pdf_sessions>>

\* session['editor'] = PDFEditor(session['filepath']); session['editor'].load()
S_reload ==
    \E i \in 1..MaxRequests :
        /\ Handling(i, "reload")
        /\ IF Opens(disk[pdf_sessions.filepath])
             THEN /\ pdf_sessions' =
                       [pdf_sessions EXCEPT
                          !.editor = SessionEditor(TRUE, disk[pdf_sessions.filepath].edits)]
                  /\ Respond(i, "ok")
             ELSE /\ pdf_sessions' = [pdf_sessions EXCEPT !.editor = SessionEditor(FALSE, {})]
                  /\ Respond(i, "error")
        /\ UNCHANGED <<otherVars, disk>>

\* After upload_pdf: the file is saved, the editor loaded and the session stored.
InitServer ==
    /\ InitCommon
    /\ output_path = InPath /\ file = <<>> /\ custom_dictionary = {} /\ ret = NoCall
    /\ disk = [path \in ServerPaths |->
                 IF path = SessionPath THEN DiskFile({}, TRUE, {}, FALSE) ELSE NoFile]
    /\ pdf_sessions = [editor |-> SessionEditor(TRUE, {}), filepath |-> SessionPath]
    /\ requests = <<>>

NextServer ==
    \/ S_request
    \/ S_get_text_blocks
    \/ S_open
    \/ S_save
    \/ S_saving
    \/ S_exists
    \/ S_replace
    \/ S_reload

SpecServer == InitServer /\ [][NextServer]_vars

-----------------------------------------------------------------------------
(* Specification of the operations that depend on their arguments only:    *)
(* the caller applies one of them to arguments of its choice.              *)

\* Blocks to measure on a page 100 wide.  mA is centred and also reaches
\* into the right fifth and spans more than 0.7 of the width; mB is right
\* only; mC is wide only; mD is left; mE lies exactly 20 off centre; mF
\* ends exactly at 0.8 of the width.  In y, mA and mB are the lines 100..115
\* and 120..135, mC overlaps both, mF starts where mB starts.
mA == TextBlock(<<"a">>, 10, 100, 90, 115, Helvetica, 12, 0, 0)
mB == TextBlock(<<"b">>, 70, 120, 95, 135, Helvetica, 12, 0, 1)
mC == TextBlock(<<"c">>, -50, 110, 30, 125, Helvetica, 12, 0, 2)
mD == TextBlock(<<"d">>, 0, 100, 20, 140, Helvetica, 12, 0, 3)
mE == TextBlock(<<"e">>, 20, 150, 40, 160, Helvetica, 12, 0, 4)
mF == TextBlock(<<"f">>, 70, 120, 80, 121, Helvetica, 12, 0, 5)

MeasureBlocks == {mA, mB, mC, mD, mE, mF}
PageWidths == {100}

\* Font names: one per family of the table, in other cases, two naming two
\* families at once, and one naming none.
Courier == <<"c", "o", "u", "r", "i", "e", "r">>
SymbolCourier == <<"S", "y", "m", "b", "o", "l", "C", "o", "u", "r", "i", "e", "r">>
TimesNewRoman == <<"T", "I", "M", "E", "S", "N", "e", "w", "R", "o", "m", "a", "n">>
ZapfDingbats == <<"Z", "a", "p", "f", "D", "i", "n", "g", "b", "a", "t", "s">>
CourierHelvetica == <<"C", "o", "u", "r", "i", "e", "r", "+", "h", "e", "l", "v", "e", "t", "i", "c", "a">>

FontNames == {Helvetica, TimesBold, Arial, Courier, SymbolCourier, TimesNewRoman,
              ZapfDingbats, CourierHelvetica}

StyleBlocks ==
    {[TextBlock(<<"x">>, 0, 0, 1, 1, name, size, 0, 0) EXCEPT !.color = color] :
        name \in FontNames, size \in {10, 12}, color \in {<<0, 0, 0>>, <<1, 0, 0>>}}

\* Spans of a document: two short runs and a long one in three fonts, a
\* bold run (another flags value), and an empty run on the last page.
s1 == TextBlock(<<"a", "b">>, 0, 0, 1, 1, Helvetica, 12, 0, 0)
s2 == TextBlock(<<"c">>, 0, 0, 1, 1, Arial, 12, 0, 1)
s3 == TextBlock(<<"x", "y", "z">>, 0, 0, 1, 1, TimesBold, 10, 0, 2)
s4 == [TextBlock(<<"a", "b">>, 0, 0, 1, 1, Helvetica, 12, 0, 3) EXCEPT !.font_flags = 16]
s5 == TextBlock(<<>>, 0, 0, 1, 1, Courier, 9, NumPages - 1, 0)

FontSpans == {s1, s2, s3, s4, s5}

\* The spans of a document come page by page.
SpanLists ==
    {l \in SeqUpTo(FontSpans, MaxList) :
        \A i \in 1..(Len(l) - 1) : l[i].page_number <= l[i + 1].page_number}

Originals == {<<>>} \cup {<<"a", "b", "c">>}
Insertions == {<<>>, <<"x", "y">>}
Positions == -1..(MaxList + 1)

\* No operation here reads or leaves any state, so a behaviour applies one
\* operation once.
FunctionCall(call) ==
    /\ ret = NoCall
    /\ ret' = call
    /\ UNCHANGED <<custom_dictionary, serverVars, file, regions, text_blocks, document, output_path, in_scope, cmds, writes, open_handles>>

F_detect_alignment ==
    \E blocks \in SeqUpTo(MeasureBlocks, MaxList), page_width \in PageWidths :
        FunctionCall([NoCall EXCEPT !.op = "detect_alignment", !.blocks = blocks,
                                    !.page_width = page_width,
                                    !.result = detect_alignment(blocks, page_width)])

F_calculate_line_spacing ==
    \E blocks \in SeqUpTo(MeasureBlocks, MaxList) :
        FunctionCall([NoCall EXCEPT !.op = "calculate_line_spacing", !.blocks = blocks,
                                    !.result = calculate_line_spacing(blocks)])

F_from_font_info ==
    \E block \in StyleBlocks, align \in 0..2 :
        FunctionCall([NoCall EXCEPT !.op = "from_font_info", !.block = Some(from_span(block)),
                                    !.align = align,
                                    !.result = from_font_info(from_span(block), align)])

F_from_text_block ==
    \E block \in StyleBlocks, align \in 0..2 :
        FunctionCall([NoCall EXCEPT !.op = "from_text_block", !.block = Some(block),
                                    !.align = align,
                                    !.result = from_text_block(block, align)])

F_get_dominant_font ==
    \E spans \in SpanLists, page \in EditorPages :
        LET r == get_dominant_font(spans, page)
        IN  FunctionCall([NoCall EXCEPT !.op = "get_dominant_font", !.blocks = spans,
                                        !.page = page, !.result = r.value, !.exc = r.exc])

F_modifier_insert_text ==
    \E original \in Originals, text \in Insertions, position \in Positions :
        LET r == modifier_insert_text(original, text, position)
        IN  FunctionCall([NoCall EXCEPT !.op = "TextModifier.insert_text", !.text = original,
                                        !.new_text = text, !.start = position,
                                        !.end = position, !.result = r.value, !.exc = r.exc])

F_replace_at_position ==
    \E original \in Originals, text \in Insertions, start \in Positions, end \in Positions :
        LET r == replace_at_position(original, text, start, end)
        IN  FunctionCall([NoCall EXCEPT !.op = "TextModifier.replace_at_position",
                                        !.text = original, !.new_text = text, !.start = start,
                                        !.end = end, !.result = r.value, !.exc = r.exc])

F_delete_text ==
    \E original \in Originals, start \in Positions, end \in Positions :
        LET r == delete_text(original, start, end)
        IN  FunctionCall([NoCall EXCEPT !.op = "TextModifier.delete_text",
                                        !.text = original, !.start = start,
                                        !.end = end, !.result = r.value, !.exc = r.exc])

\* A block whose box the caller built with its corners swapped.
bInverted == TextBlock(<<"c">>, 20, 20, 0, 10, Helvetica, 12, 0, 7)

MapperBlocks == LayoutBlocks \cup {bInverted}

\* A fresh LayoutMapper is fed one list, once or twice over.
F_add_text_blocks ==
    \E blocks \in SeqUpTo(MapperBlocks, MaxList), times \in 1..2 :
        /\ ret = NoCall
        /\ regions' = IF times = 1 THEN add_text_blocks(regions, blocks)
                      ELSE add_text_blocks(add_text_blocks(regions, blocks), blocks)
        /\ ret' = [NoCall EXCEPT !.op = "add_text_blocks", !.blocks = blocks, !.count = times]
        /\ UNCHANGED <<custom_dictionary, serverVars, file, text_blocks, document, output_path,
                       in_scope, cmds, writes, open_handles>>

InitFunctions ==
    /\ InitCommon /\ InitNoServer
    /\ output_path = InPath /\ ret = NoCall /\ file = <<>> /\ custom_dictionary = {}

NextFunctions ==
    \/ F_detect_alignment
    \/ F_calculate_line_spacing
    \/ F_from_font_info
    \/ F_from_text_block
    \/ F_get_dominant_font
    \/ F_modifier_insert_text
    \/ F_replace_at_position
    \/ F_delete_text
    \/ F_add_text_blocks

SpecFunctions == InitFunctions /\ [][NextFunctions]_vars

-----------------------------------------------------------------------------
(* Specification of a SpellChecker used on its own: it is constructed with *)
(* a word list, then the caller edits the dictionary and checks and        *)
(* corrects words and texts in any order.                                  *)

\* Words: the misspelling the engine knows in three cases, a word the
\* engine does not know in lower and in mixed case, and a word with a digit.
wTeh == <<"t", "e", "h">>
wTehTitle == <<"T", "e", "h">>
wTehUpper == <<"T", "E", "H">>
wAbc == <<"a", "b", "c">>
wAbcMixed == <<"A", "b", "C">>
wDigit == <<"a", "1">>

Words == {wTeh, wTehTitle, wTehUpper, wAbc, wAbcMixed, wDigit}
DictionaryWords == {wTeh, wTehTitle, wAbcMixed}

Texts ==
    {<<>>, wTeh \o <<" ">> \o wAbc, wTehTitle \o <<",">> \o wTehUpper,
     wAbcMixed \o <<" ">> \o wDigit, wAbc \o <<"-">> \o wAbcMixed}

SpellCall(call, dictionary) ==
    /\ custom_dictionary' = dictionary
    /\ ret' = call
    /\ UNCHANGED <<serverVars, file, regions, text_blocks, document, output_path, in_scope,
                   cmds, writes, open_handles>>

SC_check_word ==
    \E word \in Words :
        SpellCall([NoCall EXCEPT !.op = "check_word", !.text = word,
                                 !.ok = PyBool(check_word(word, custom_dictionary))],
                  custom_dictionary)

SC_correct_word ==
    \E word \in Words :
        SpellCall([NoCall EXCEPT !.op = "correct_word", !.text = word,
                                 !.result = correct_word(word, custom_dictionary)],
                  custom_dictionary)

SC_check_text ==
    \E text \in Texts :
        SpellCall([NoCall EXCEPT !.op = "check_text", !.text = text,
                                 !.result = check_text(text, custom_dictionary)],
                  custom_dictionary)

SC_correct_text ==
    \E text \in Texts :
        SpellCall([NoCall EXCEPT !.op = "correct_text", !.text = text,
                                 !.result = correct_text(text, custom_dictionary)],
                  custom_dictionary)

SC_add_to_dictionary ==
    \E word \in DictionaryWords :
        SpellCall([NoCall EXCEPT !.op = "add_to_dictionary", !.text = word],
                  add_to_dictionary(custom_dictionary, word))

SC_remove_from_dictionary ==
    \E word \in DictionaryWords :
        SpellCall([NoCall EXCEPT !.op = "remove_from_dictionary", !.text = word],
                  remove_from_dictionary(custom_dictionary, word))

InitSpellChecker ==
    /\ InitCommon /\ InitNoServer
    /\ output_path = InPath /\ file = <<>>
    /\ \E words \in SeqUpTo(DictionaryWords, MaxList) :
          /\ custom_dictionary = SpellCheckerInit(words)
          /\ ret = [NoCall EXCEPT !.op = "__init__", !.blocks = words]

NextSpellChecker ==
    \/ SC_check_word
    \/ SC_correct_word
    \/ SC_check_text
    \/ SC_correct_text
    \/ SC_add_to_dictionary
    \/ SC_remove_from_dictionary

SpecSpellChecker == InitSpellChecker /\ [][NextSpellChecker]_vars

-----------------------------------------------------------------------------
(* Claims about LayoutMapper.                                              *)

PageInputs == 0..(NumPages + 1)

\* The mapper's dict read as a total function on the page indices.
RegionsOf(regs) == [p \in PageInputs |-> get_regions_on_page(regs, p)]

C1_Fits(b, r) ==
    /\ Abs(b.x0 - r.x0) < 5
    /\ Abs(b.x1 - r.x1) < 5
    /\ b.y0 >= r.y0 - 5
    /\ b.y1 <= r.y1 + 5

\* Where the claim says one block goes.
C1_Place(f, b) ==
    LET list == f[b.page_number]
        matches == {i \in 1..Len(list) : C1_Fits(b, list[i])}
    IN  IF matches = {}
        THEN [f EXCEPT ![b.page_number] =
                Append(list, [x0 |-> b.x0, y0 |-> b.y0, x1 |-> b.x1, y1 |-> b.y1,
                              page_number |-> b.page_number, text_blocks |-> <<b>>])]
        ELSE [f EXCEPT ![b.page_number][Min(matches)].text_blocks = Append(@, b)]

RECURSIVE C1_PlaceAll(_, _, _)
C1_PlaceAll(f, blocks, i) ==
    IF i > Len(blocks) THEN f ELSE C1_PlaceAll(C1_Place(f, blocks[i]), blocks, i + 1)

\* C1: add_text_blocks places each block, in input order, into the first
\* region (in creation order) of the block's page whose box it fits within
\* the tolerance of 5, and appends a new one-member region with the block's
\* box when no region of that page fits.
C1_FirstMatchWins ==
    [][ret'.op = "add_text_blocks"
        => RegionsOf(regions') = C1_PlaceAll(RegionsOf(regions), ret'.blocks, 1)]_vars

\* Distance in x between a block and a region box.
XDist(b, r) == Abs(b.x0 - r.x0) + Abs(b.x1 - r.x1)

\* A block sits in an earlier region although a later region of the page
\* fits it too, and more closely; and some block opened a region of its own
\* next to an existing one.
C1_Witness ==
    /\ ret.op = "add_text_blocks"
    /\ \E p \in PageInputs :
         LET list == get_regions_on_page(regions, p)
         IN  \E i \in 1..Len(list), j \in 1..Len(list) :
                /\ i < j
                /\ Len(list[i].text_blocks) >= 2
                /\ LET b == list[i].text_blocks[Len(list[i].text_blocks)]
                   IN  /\ C1_Fits(b, list[j])
                       /\ XDist(b, list[j]) < XDist(b, list[i])

Box(r) == <<r.x0, r.y0, r.x1, r.y1>>

\* C2: every region's bounding box equals the box of its first member.
C2_BoxIsFirstMembers ==
    \A p \in PageInputs :
        LET list == get_regions_on_page(regions, p)
        IN  \A i \in 1..Len(list) :
                /\ Len(list[i].text_blocks) >= 1
                /\ Box(list[i]) = Box(list[i].text_blocks[1])

\* A region absorbed a block whose box differs from the region's.
C2_Witness ==
    \E p \in PageInputs :
        LET list == get_regions_on_page(regions, p)
        IN  \E i \in 1..Len(list) :
                /\ Len(list[i].text_blocks) >= 2
                /\ Box(list[i].text_blocks[2]) # Box(list[i])
                /\ list[i].text_blocks[2].y1 > list[i].y1

\* The concatenation of the first n lists of a list of lists.
RECURSIVE ConcatTo(_, _)
ConcatTo(lists, n) == IF n = 0 THEN <<>> ELSE ConcatTo(lists, n - 1) \o lists[n]

\* a is b with its elements in another order.
IsPermutationOf(a, b) ==
    /\ Len(a) = Len(b)
    /\ \E p \in [1..Len(a) -> 1..Len(a)] :
          /\ \A i, j \in 1..Len(a) : i # j => p[i] # p[j]
          /\ \A i \in 1..Len(a) : a[i] = b[p[i]]

\* The group that holds the k-th region of the concatenation.
C12_GroupOf(columns, k) ==
    CHOOSE c \in 1..Len(columns) :
        Len(ConcatTo(columns, c - 1)) < k /\ k <= Len(ConcatTo(columns, c))

\* C12: get_column_structure returns the page's regions in x0 order, cut
\* into non-empty groups, with a cut between two neighbours exactly when
\* current.x0 - previous.x1 > gap; a page without regions gives no group.
C12_ColumnsCutAtGaps ==
    ret.op = "get_column_structure"
        => LET list == get_regions_on_page(regions, Val(ret.page))
               columns == ret.result
               flat == ConcatTo(columns, Len(columns))
           IN  /\ list = <<>> => columns = <<>>
               /\ \A c \in 1..Len(columns) : columns[c] # <<>>
               /\ IsPermutationOf(flat, list)
               /\ \A k \in 1..(Len(flat) - 1) :
                     /\ flat[k].x0 <= flat[k + 1].x0
                     /\ (C12_GroupOf(columns, k) # C12_GroupOf(columns, k + 1))
                          <=> (flat[k + 1].x0 - flat[k].x1 > ret.gap)

\* Regions created out of x0 order came back as a group of two and a group
\* of one, the cut lying at a distance over the gap and the two grouped
\* regions at most the gap apart; or two regions exactly the gap apart
\* stayed in one group.
C12_Witness ==
    /\ ret.op = "get_column_structure"
    /\ LET list == get_regions_on_page(regions, Val(ret.page))
       IN  /\ Len(list) = 3
           /\ list[1].x0 > list[2].x0
           /\ Len(ret.result) = 2
           /\ Len(ret.result[1]) = 2
           /\ ret.result[2][1].x0 - ret.result[1][2].x1 = ret.gap + 5

\* c and d are the same character up to the case of a letter.
SameLetter(c, d) ==
    \/ c = d
    \/ \E i \in 1..Len(UpperLetters) : {c, d} = {UpperLetters[i], LowerLetters[i]}

C14_Contains(text, query) ==
    \E off \in 0..(Len(text) - Len(query)) :
        \A k \in 1..Len(query) : SameLetter(text[off + k], query[k])

\* The members of the regions of one page, region by region.
C14_Members(regs, page) ==
    LET list == get_regions_on_page(regs, page)
    IN  ConcatTo([i \in 1..Len(list) |-> list[i].text_blocks], Len(list))

C14_Found(regs, page, query) ==
    SelectSeq(C14_Members(regs, page), LAMBDA b : C14_Contains(b.text, query))

\* C14: find_blocks_by_text returns exactly the members whose text contains
\* the query up to case, in region-then-member order; of the one page when a
\* page is given (every block then has that page number), of all the pages
\* the mapper knows otherwise.
C14_CaseInsensitiveMatches ==
    ret.op = "find_blocks_by_text"
        => IF ~IsNone(ret.page)
           THEN /\ ret.result = C14_Found(regions, Val(ret.page), ret.text)
                /\ \A i \in 1..Len(ret.result) : ret.result[i].page_number = Val(ret.page)
           ELSE LET known == {q \in PageInputs : get_regions_on_page(regions, q) # <<>>}
                IN  \E order \in [1..Cardinality(known) -> known] :
                       /\ \A i, j \in DOMAIN order : i # j => order[i] # order[j]
                       /\ ret.result =
                            ConcatTo([i \in DOMAIN order |->
                                        C14_Found(regions, order[i], ret.text)],
                                     Cardinality(known))

\* A search over all pages of a mapper that knows two pages found a block
\* whose text holds the query only in another case, and left out a member.
C14_Witness ==
    /\ ret.op = "find_blocks_by_text"
    /\ IsNone(ret.page)
    /\ Len(regions) = 2
    /\ \E i \in 1..Len(ret.result) : ~StrIn(ret.text, ret.result[i].text)
    /\ Len(ret.result) < MemberCount(regions)
    /\ \E i, j \in 1..Len(ret.result) : ret.result[i].page_number # ret.result[j].page_number

-----------------------------------------------------------------------------
(* Claims about PDFRenderer.                                               *)

White == <<1, 1, 1>>

\* C3: on an open renderer and a block whose page exists,
\* replace_text_block(block, newText, options) issues exactly two commands
\* on page block.page_number, in this order: a white filled rectangle over
\* (x0, y0, x1, y1) with overlay = false, then one insertion of newText at
\* (x0, y0 + font_size), styled by options or, when options is omitted, by
\* RenderOptions.from_text_block(block).
C3_ReplaceIsCoverThenInsert ==
    [][(/\ ret'.op = "replace_text_block"
        /\ document = "open"
        /\ Val(ret'.block).page_number \in 0..(NumPages - 1))
       => LET b == Val(ret'.block)
              o == IF IsNone(ret'.options) THEN from_text_block(b, 0) ELSE Val(ret'.options)
          IN  /\ Len(cmds') = 2
              /\ cmds'[1].cmd = "draw_rect"
              /\ cmds'[1].page = b.page_number
              /\ cmds'[1].rect = <<b.x0, b.y0, b.x1, b.y1>>
              /\ cmds'[1].fill = White
              /\ cmds'[1].overlay = FALSE
              /\ cmds'[2].cmd = "insert_text"
              /\ cmds'[2].page = b.page_number
              /\ cmds'[2].text = ret'.text
              /\ cmds'[2].point = <<b.x0, b.y0 + b.font_size>>
              /\ cmds'[2].fontname = o.font_name
              /\ cmds'[2].fontsize = o.font_size
              /\ cmds'[2].color = o.color
              /\ cmds'[2].overlay = o.overlay]_vars

\* A block was replaced, with its own style, and the engine accepted it.
C3_Witness ==
    /\ ret.op = "replace_text_block"
    /\ IsNone(ret.options)
    /\ ret.ok = "True"
    /\ Len(cmds) = 2
    /\ cmds[2].fontname = "times"

RendererOps ==
    {"insert_text", "insert_textbox", "replace_text_block", "remove_text_block",
     "highlight_text_block", "save", "get_page_count"}

\* C5: every PDFRenderer operation invoked outside an open scope, before
\* the scope is entered and after it is left, fails with the
\* document-not-open error (the RuntimeError of the guard) and issues no
\* drawing or save command.
C5_OutsideScopeNotOpenError ==
    [][(ret'.op \in RendererOps /\ ~in_scope)
       => (ret'.exc = "RuntimeError" /\ cmds' = <<>> /\ writes' = writes)]_vars

\* The path a save call names: None and the empty string name none.
C6_Target(path, configured) ==
    IF path = None \/ path = Some(<<>>) THEN configured ELSE path[1]

\* C6: the configured output path is the constructor's argument, or the
\* input path when none is given; the output is written only by a save
\* call on the open document, and every such call appends exactly one full
\* write, to the given path or else to the configured output path.  Leaving
\* the scope writes nothing.
C6_OnlySaveWrites ==
    /\ (ret.op = "__init__" => output_path = C6_Target(ret.path, InPath))
    /\ [][/\ (writes' # writes => ret'.op = "save" /\ document = "open")
          /\ (ret'.op = "save" /\ document = "open"
                => writes' = Append(writes,
                                    [path |-> C6_Target(ret'.path, output_path),
                                     garbage |-> 4, deflate |-> TRUE, clean |-> TRUE]))
          /\ output_path' = output_path]_vars

\* A save without a path wrote the input file of a renderer constructed
\* without an output path, after an earlier save to an explicit path.
C6_Witness ==
    /\ ret.op = "save"
    /\ IsNone(ret.path)
    /\ output_path = InPath
    /\ Len(writes) = 2
    /\ writes[1].path = OutPath
    /\ writes[2].path = InPath

InsertOps == {"insert_text", "insert_textbox"}

\* The single insertion command the claim describes.
C8_OneInsertion(c, call) ==
    LET o == IF IsNone(call.options)
             THEN [font_name |-> "helv", font_size |-> 12, color |-> <<0, 0, 0>>,
                   align |-> 0, overlay |-> TRUE]
             ELSE Val(call.options)
    IN  /\ Len(c) = 1
        /\ c[1].cmd = call.op
        /\ c[1].page = Val(call.page)
        /\ c[1].text = call.text
        /\ c[1].fontname = o.font_name
        /\ c[1].fontsize = o.font_size
        /\ c[1].color = o.color
        /\ c[1].overlay = o.overlay
        /\ (call.op = "insert_textbox" => c[1].align = o.align)

\* C8 as claimed: on an open renderer insert_text and insert_textbox return
\* false and issue nothing when page >= page count, and for every page below
\* the page count issue exactly one insertion and return true.
C8_InRangeReturnsTrue ==
    [][(ret'.op \in InsertOps /\ document = "open")
       => IF Val(ret'.page) >= NumPages
          THEN ret'.ok = "False" /\ cmds' = <<>>
          ELSE C8_OneInsertion(cmds', ret') /\ ret'.ok = "True"]_vars

\* C8 as amended: ... and return true exactly when the engine's status for
\* that insertion is >= 0, false when it is negative; an exception of the
\* engine propagates.
C8_InRangeReturnsEngineStatus ==
    [][(ret'.op \in InsertOps /\ document = "open")
       => IF Val(ret'.page) >= NumPages
          THEN ret'.ok = "False" /\ cmds' = <<>> /\ ret'.exc = "none"
          ELSE /\ C8_OneInsertion(cmds', ret')
               /\ cmds'[1].rc = ret'.eng.rc
               /\ IF ret'.eng.raised
                  THEN ret'.exc = "EngineError"
                  ELSE ret'.exc = "none" /\ ret'.ok = PyBool(ret'.eng.rc >= 0)]_vars

\* An in-range insertion the engine refused: one command, result false.
C8_Witness ==
    /\ ret.op = "insert_textbox"
    /\ Val(ret.page) < NumPages
    /\ Len(cmds) = 1
    /\ cmds[1].rc < 0
    /\ ret.ok = "False"

\* C7: a page-scoped call with a page index outside [0, pageCount) raises
\* PageIndexError instead of returning an empty or default result; here for
\* PDFRenderer.insert_text and insert_textbox on an open renderer.
C7_OutOfRangePageRaises ==
    [][(ret'.op \in InsertOps /\ document = "open" /\ Val(ret'.page) \notin 0..(NumPages - 1))
       => ret'.exc = "PageIndexError"]_vars

-----------------------------------------------------------------------------
(* Claims about PDFEditor, checked under SpecEditor.                       *)

BatchOps == {"correct_spelling", "replace_text"}

\* The i-th command of a batch is an insertion the engine refused (negative
\* status, so replace_text_block returns False) or failed (it raised).
C4_FailedInsertion(c, i) ==
    c[i].cmd = "insert_text" /\ (c[i].raised \/ c[i].rc < 0)

\* C4: in correct_spelling and replace_text, when replacing one block fails
\* (replace_text_block raises or reports failure) the batch is aborted: the
\* call fails, the failed insertion is the last command issued (no later
\* block is processed), the block is not counted and nothing is written.
C4_FailedBlockAbortsBatch ==
    [][(ret'.op \in BatchOps /\ \E i \in 1..Len(cmds') : C4_FailedInsertion(cmds', i))
        => /\ ret'.exc # "none"
           /\ C4_FailedInsertion(cmds', Len(cmds'))
           /\ ret'.count = 0
           /\ writes' = writes]_vars

\* C9: load is idempotent: a load on an editor that has already loaded the
\* (unchanged) file leaves the cached blocks and the regions as they were.
C9_LoadIdempotent ==
    [][(ret'.op = "load" /\ ~IsNone(text_blocks))
        => (text_blocks' = text_blocks /\ regions' = regions)]_vars

-----------------------------------------------------------------------------
(* Claims about the operations that depend on their arguments only,       *)
(* checked under SpecFunctions.                                            *)

\* Sum of f[i] over i in 1..n, taken from the last index down.
RECURSIVE SumTo(_, _)
SumTo(f, n) == IF n = 0 THEN 0 ELSE SumTo(f, n - 1) + f[n]

\* The three criteria on the means meanX0 = sx0 / n and meanX1 = sx1 / n
\* of n > 0 blocks, each multiplied through by its denominators.
C11_Center(sx0, sx1, n, w) == sx0 + sx1 > n * (w - 40) /\ sx0 + sx1 < n * (w + 40)
C11_Right(sx1, n, w) == 10 * sx1 > 8 * w * n
C11_Justified(sx0, sx1, n, w) == 10 * (sx1 - sx0) > 7 * w * n

C11_First(blocks, w) ==
    LET n == Len(blocks)
        sx0 == SumTo([i \in 1..n |-> blocks[i].x0], n)
        sx1 == SumTo([i \in 1..n |-> blocks[i].x1], n)
    IN  CASE C11_Center(sx0, sx1, n, w) -> "CENTER"
          [] ~C11_Center(sx0, sx1, n, w) /\ C11_Right(sx1, n, w) -> "RIGHT"
          [] ~C11_Center(sx0, sx1, n, w) /\ ~C11_Right(sx1, n, w)
               /\ C11_Justified(sx0, sx1, n, w) -> "JUSTIFIED"
          [] OTHER -> "LEFT"

\* C11: detect_alignment returns the first criterion that holds of the mean
\* x0 and mean x1, in the order center, right, justified, else left.
C11_CenterFirst ==
    (ret.op = "detect_alignment" /\ ret.blocks # <<>>)
        => ret.result = C11_First(ret.blocks, ret.page_width)

\* A block set that meets the center, the right and the justified criterion
\* was reported CENTER.
C11_Witness ==
    /\ ret.op = "detect_alignment"
    /\ Len(ret.blocks) >= 2
    /\ LET n == Len(ret.blocks)
           sx0 == SumTo([i \in 1..n |-> ret.blocks[i].x0], n)
           sx1 == SumTo([i \in 1..n |-> ret.blocks[i].x1], n)
       IN  /\ C11_Center(sx0, sx1, n, ret.page_width)
           /\ C11_Right(sx1, n, ret.page_width)
           /\ C11_Justified(sx0, sx1, n, ret.page_width)
    /\ ret.result = "CENTER"

\* The order of the blocks by y0 ascending, equal y0 in the order given: the
\* i-th block of the order is blocks[p[i]].
C13_Order(blocks) ==
    LET n == Len(blocks)
    IN  CHOOSE p \in [1..n -> 1..n] :
            /\ \A i, j \in 1..n : i # j => p[i] # p[j]
            /\ \A i, j \in 1..n :
                  i < j => \/ blocks[p[i]].y0 < blocks[p[j]].y0
                           \/ blocks[p[i]].y0 = blocks[p[j]].y0 /\ p[i] < p[j]

\* The gap after the i-th block of the order, counted when strictly positive.
C13_Gap(blocks, p, i) == blocks[p[i + 1]].y0 - blocks[p[i]].y1

C13_Mean(blocks) ==
    LET n == Len(blocks)
        p == C13_Order(blocks)
        kept == {i \in 1..(n - 1) : C13_Gap(blocks, p, i) > 0}
        total == SumTo([i \in 1..(n - 1) |->
                          IF i \in kept THEN C13_Gap(blocks, p, i) ELSE 0], n - 1)
    IN  IF n < 2 \/ kept = {} THEN [num |-> 0, den |-> 1]
        ELSE [num |-> total, den |-> Cardinality(kept)]

\* C13: calculate_line_spacing is the mean of the strictly positive gaps
\* between blocks consecutive in y0 order, 0 when there are fewer than two
\* blocks or no positive gap; it is never negative, and the lines 100..115
\* and 120..135 give exactly 5.
C13_MeanOfPositiveGaps ==
    ret.op = "calculate_line_spacing"
        => /\ ret.result = C13_Mean(ret.blocks)
           /\ ret.result.num >= 0 /\ ret.result.den > 0
           /\ ret.blocks = <<mA, mB>> => ret.result = [num |-> 5, den |-> 1]

\* Blocks given out of y0 order, with an overlap that is left out of the mean.
C13_Witness ==
    /\ ret.op = "calculate_line_spacing"
    /\ \E i \in 1..(Len(ret.blocks) - 1) : ret.blocks[i].y0 > ret.blocks[i + 1].y0
    /\ LET p == C13_Order(ret.blocks)
       IN  \E i \in 1..(Len(ret.blocks) - 1) : C13_Gap(ret.blocks, p, i) < 0
    /\ ret.result.num > 0

\* The families in the claim's priority order, each with its renderer font.
C15_Families ==
    << [family |-> <<"T", "i", "m", "e", "s">>, font |-> "times"],
       [family |-> <<"T", "i", "m", "e", "s", "N", "e", "w", "R", "o", "m", "a", "n">>,
        font |-> "times"],
       [family |-> Helvetica, font |-> "helv"],
       [family |-> <<"C", "o", "u", "r", "i", "e", "r">>, font |-> "cour"],
       [family |-> <<"S", "y", "m", "b", "o", "l">>, font |-> "symb"],
       [family |-> ZapfDingbats, font |-> "zadb"] >>

C15_Resolve(name) ==
    LET named == {i \in 1..Len(C15_Families) : C14_Contains(name, C15_Families[i].family)}
    IN  IF named = {} THEN "helv" ELSE C15_Families[Min(named)].font

\* C15: from_font_info and from_text_block select the renderer font of the
\* first family, in the order Times, TimesNewRoman, Helvetica, Courier,
\* Symbol, ZapfDingbats, whose name occurs in the source font name up to
\* case, helv when none does; size and color are copied; from_text_block
\* gives what from_font_info gives for the same name, size and color.
C15_FirstFamilyInPriorityOrder ==
    /\ ret.op = "from_font_info"
         => /\ ret.result.font_name = C15_Resolve(Val(ret.block).name)
            /\ ret.result.font_size = Val(ret.block).size
            /\ ret.result.color = Val(ret.block).color
    /\ ret.op = "from_text_block"
         => /\ ret.result.font_name = C15_Resolve(Val(ret.block).font_name)
            /\ ret.result.font_size = Val(ret.block).font_size
            /\ ret.result.color = Val(ret.block).color
            /\ ret.result = from_font_info([name |-> Val(ret.block).font_name,
                                            size |-> Val(ret.block).font_size,
                                            color |-> Val(ret.block).color], ret.align)

\* A block whose font name holds Courier first and Helvetica, in lower case,
\* after it resolved to the Helvetica font, with its own size and color.
C15_Witness ==
    /\ ret.op = "from_text_block"
    /\ Val(ret.block).font_name = CourierHelvetica
    /\ ret.result.font_name = "helv"
    /\ ret.result.font_size = 10
    /\ ret.result.color = <<1, 0, 0>>

\* The spans get_dominant_font looks at for `page`.
C19_Scope(spans, page) ==
    SelectSeq(spans, LAMBDA sp : IsNone(page) \/ sp.page_number = Val(page))

\* The characters the spans of `scope` with font key `key` hold in total.
C19_Total(scope, key) ==
    SumTo([i \in 1..Len(scope) |->
             IF <<scope[i].font_name, scope[i].font_size, scope[i].font_flags>> = key
             THEN Len(scope[i].text) ELSE 0], Len(scope))

\* C19: get_dominant_font returns None exactly when no span is in scope;
\* otherwise the FontInfo of a (name, size, flags) key of the scope whose
\* total character count is at least that of every other key in scope.
C19_MostCharacters ==
    (ret.op = "get_dominant_font" /\ ret.exc = "none")
        => LET scope == C19_Scope(ret.blocks, ret.page)
               keys == {<<scope[i].font_name, scope[i].font_size, scope[i].font_flags>> :
                           i \in 1..Len(scope)}
           IN  /\ IsNone(ret.result) <=> scope = <<>>
               /\ ~IsNone(ret.result)
                    => LET info == Val(ret.result)
                           key == <<info.name, info.size, info.flags>>
                       IN  /\ key \in keys
                           /\ \E i \in 1..Len(scope) : info = from_span(scope[i])
                           /\ \A other \in keys :
                                 C19_Total(scope, key) >= C19_Total(scope, other)

\* The font returned has fewer spans in scope than another font, and more
\* characters.
C19_Witness ==
    /\ ret.op = "get_dominant_font"
    /\ ~IsNone(ret.result)
    /\ LET scope == C19_Scope(ret.blocks, ret.page)
           spans_of(name) == Cardinality({i \in 1..Len(scope) : scope[i].font_name = name})
       IN  \E i \in 1..Len(scope) :
              spans_of(scope[i].font_name) > spans_of(Val(ret.result).name)

\* original[:start] + inserted + original[end:]
C20_Splice(original, start, end, inserted) ==
    [i \in 1..(start + Len(inserted) + Len(original) - end) |->
        IF i <= start THEN original[i]
        ELSE IF i <= start + Len(inserted) THEN inserted[i - start]
        ELSE original[i - start - Len(inserted) + end]]

C20_InRange(original, start, end) == 0 <= start /\ start <= end /\ end <= Len(original)

\* C20: TextModifier.insert_text, replace_at_position and delete_text raise
\* unless 0 <= start <= end <= len(original) (start = end = position for
\* insert_text) and otherwise return original[:start] + text + original[end:]
\* (no text for delete_text).
C20_RejectOrSplice ==
    ret.op \in {"TextModifier.insert_text", "TextModifier.replace_at_position",
                "TextModifier.delete_text"}
        => IF C20_InRange(ret.text, ret.start, ret.end)
           THEN /\ ret.exc = "none"
                /\ ret.result = C20_Splice(ret.text, ret.start, ret.end, ret.new_text)
           ELSE ret.exc = "ValueError"

\* A replacement of a proper inner range by a longer text, and (in other
\* states) a rejected range whose start lies after its end.
C20_Witness ==
    /\ ret.op = "TextModifier.replace_at_position"
    /\ ret.text = <<"a", "b", "c">>
    /\ ret.start = 1 /\ ret.end = 2
    /\ ret.result = <<"a", "x", "y", "c">>

-----------------------------------------------------------------------------
(* Further claims about PDFEditor, checked under SpecEditor.               *)

\* The insertion issued by the last editor insert_text, if one was issued.
C16_Issued == Len(cmds) = 1 /\ cmds[1].cmd = "insert_text"

\* C16: insert_text renders with the caller's font_size and font_name when
\* they are supplied; a value left unspecified is that of the page's
\* dominant font, or 12 and helv when the page has no text.
C16_SuppliedStyleIsUsed ==
    (ret.op = "insert_text" /\ C16_Issued)
        => LET dominant == get_dominant_font(file, ret.page).value
           IN  /\ cmds[1].fontsize =
                     IF ~IsNone(ret.font_size) THEN Val(ret.font_size)
                     ELSE IF ~IsNone(dominant) THEN Val(dominant).size ELSE 12
               /\ cmds[1].fontname =
                     IF ~IsNone(ret.font_name) THEN Val(ret.font_name)
                     ELSE IF ~IsNone(dominant) THEN C15_Resolve(Val(dominant).name) ELSE "helv"

\* The commands replace_text_block issues for one block and its new text.
C17_Rendered(c, i, block, new_text) ==
    /\ c[2 * i - 1].cmd = "draw_rect"
    /\ c[2 * i - 1].page = block.page_number
    /\ c[2 * i - 1].rect = Box(block)
    /\ c[2 * i].cmd = "insert_text"
    /\ c[2 * i].page = block.page_number
    /\ c[2 * i].text = new_text

\* The blocks of the file a call on `page` is about.
C17_InScope(page) ==
    SelectSeq(file, LAMBDA b : IsNone(page) \/ b.page_number = Val(page))

\* C17: a correct_spelling that returns gives the number of in-scope blocks
\* whose corrected text differs from their text, has called
\* replace_text_block once for each of them, in order, with the block's own
\* style, and for no other block, and has saved exactly once, to the output
\* path, also when the count is 0.
C17_CountsAndSavesOnce ==
    /\ [](ret.op = "correct_spelling" /\ ret.exc = "none"
            => LET differing == SelectSeq(C17_InScope(ret.page),
                                   LAMBDA b : correct_text(b.text, EditorDictionary) # b.text)
               IN  /\ ret.count = Len(differing)
                   /\ Len(ret.result) = Len(differing)
                   /\ Len(cmds) = 2 * Len(differing)
                   /\ \A i \in 1..Len(differing) :
                         /\ ret.result[i].block = differing[i]
                         /\ ret.result[i].new_text # differing[i].text
                         /\ ret.result[i].new_text =
                              correct_text(differing[i].text, EditorDictionary)
                         /\ ret.result[i].options = Some(from_text_block(differing[i], 0))
                         /\ C17_Rendered(cmds, i, differing[i], ret.result[i].new_text))
    /\ [][(ret'.op = "correct_spelling" /\ ret'.exc = "none")
            => /\ Len(writes') = Len(writes) + 1
               /\ SubSeq(writes', 1, Len(writes)) = writes
               /\ writes'[Len(writes')].path = OutPath]_vars

\* A correct_spelling over the whole of a three-block file corrected one
\* block and wrote the output.
C17_Witness ==
    /\ ret.op = "correct_spelling"
    /\ ret.exc = "none"
    /\ IsNone(ret.page)
    /\ Len(file) = 3
    /\ ret.count = 1
    /\ Len(cmds) = 2
    /\ Len(writes) = 1

\* taken[p] for p in 1..n: position p of text starts an occurrence of old
\* that replace-all takes, i.e. old occurs at p and no taken occurrence
\* before p reaches p.
RECURSIVE C18_Taken(_, _, _)
C18_Taken(text, old, n) ==
    IF n = 0 THEN <<>>
    ELSE LET before == C18_Taken(text, old, n - 1)
         IN  Append(before,
                    /\ n + Len(old) - 1 <= Len(text)
                    /\ \A k \in 1..Len(old) : text[n + k - 1] = old[k]
                    /\ \A q \in 1..(n - 1) : q + Len(old) > n => ~before[q])

\* text with every occurrence of the non-empty old replaced by new.
C18_ReplaceEvery(text, old, new) ==
    LET taken == C18_Taken(text, old, Len(text))
    IN  ConcatTo([p \in 1..Len(text) |->
                    IF taken[p] THEN new
                    ELSE IF \E q \in 1..(p - 1) : taken[q] /\ q + Len(old) > p THEN <<>>
                    ELSE <<text[p]>>],
                 Len(text))

\* C18: a replace_text that returns has re-rendered exactly the matching
\* blocks whose text changes when every occurrence of old is replaced by
\* new, each with that text, returns their number, and has passed the
\* block's own style with preserve_style and no options without it.
C18_ReplacesEveryOccurrence ==
    (ret.op = "replace_text" /\ ret.exc = "none")
        => LET matching == find_blocks_by_text(regions, ret.text, ret.page)
               every == [i \in 1..Len(matching) |->
                           C18_ReplaceEvery(matching[i].text, ret.text, ret.new_text)]
               changed == {i \in 1..Len(matching) : every[i] # matching[i].text}
               \* the k-th changed block is matching[nth[k]]
               nth == [k \in 1..Cardinality(changed) |->
                         CHOOSE i \in changed : Cardinality({j \in changed : j < i}) = k - 1]
           IN  /\ ret.count = Cardinality(changed)
               /\ Len(ret.result) = Cardinality(changed)
               /\ Len(cmds) = 2 * Cardinality(changed)
               /\ \A k \in 1..Cardinality(changed) :
                     /\ ret.result[k] =
                          [block |-> matching[nth[k]], new_text |-> every[nth[k]],
                           options |-> IF ret.preserve_style
                                       THEN Some(from_text_block(matching[nth[k]], 0))
                                       ELSE None]
                     /\ C17_Rendered(cmds, k, matching[nth[k]], every[nth[k]])

\* A block holding old twice was re-rendered with both occurrences
\* replaced and without options, and a block that matches only in another
\* case was left alone.
C18_Witness ==
    /\ ret.op = "replace_text"
    /\ ret.exc = "none"
    /\ ~ret.preserve_style
    /\ Len(ret.result) < Len(find_blocks_by_text(regions, ret.text, ret.page))
    /\ \E i \in 1..Len(ret.result) :
          /\ ret.result[i].block.text = <<"a", " ", "a">>
          /\ ret.result[i].new_text = <<"x", " ", "x">>
          /\ IsNone(ret.result[i].options)

-----------------------------------------------------------------------------
(* Further claims about LayoutMapper, on a fresh mapper.                   *)

\* The places <<entry, region, member>> of a mapper's regions.
Places(regs) ==
    UNION {UNION {{<<i, j, k>> : k \in 1..Len(regs[i].value[j].text_blocks)} :
                     j \in 1..Len(regs[i].value)} : i \in 1..Len(regs)}

\* The blocks the mapper holds, over all pages and regions.
MembersOf(regs) == {regs[p[1]].value[p[2]].text_blocks[p[3]] : p \in Places(regs)}

\* How often the mapper holds `block`.
Occurrences(regs, block) ==
    Cardinality({p \in Places(regs) : regs[p[1]].value[p[2]].text_blocks[p[3]] = block})

\* Every region is stored under its page, holds blocks of that page only
\* and holds at least one.
C30_RegionsOfTheirPage ==
    \A i \in 1..Len(regions) :
        /\ \A h \in 1..Len(regions) : regions[h].key = regions[i].key => h = i
        /\ \A j \in 1..Len(regions[i].value) :
              LET region == regions[i].value[j]
              IN  /\ region.page_number = regions[i].key
                  /\ region.text_blocks # <<>>
                  /\ \A k \in 1..Len(region.text_blocks) :
                        region.text_blocks[k].page_number = regions[i].key

\* C30: after any sequence of add_text_blocks calls every region is stored
\* under its own page, is not empty and holds blocks of that page only, and
\* each call adds every block it was given to exactly one region: the
\* mapper holds each block once more per occurrence in the call, so the
\* members over all regions are as many as the blocks added.
C30_EachBlockInOneRegion ==
    /\ []C30_RegionsOfTheirPage
    /\ [][ret'.op = "add_text_blocks" =>
            /\ \A block \in LayoutBlocks :
                  Occurrences(regions', block) =
                      Occurrences(regions, block)
                        + Cardinality({k \in 1..Len(ret'.blocks) : ret'.blocks[k] = block})
            /\ MemberCount(regions') = MemberCount(regions) + Len(ret'.blocks)]_vars

\* Two calls at least have filled two pages, and one region has absorbed
\* a second block.
C30_Witness ==
    /\ ret.op = "add_text_blocks" /\ Len(ret.blocks) = 1
    /\ MemberCount(regions) = 3
    /\ Len(regions) = 2
    /\ \E p \in Places(regions) : p[3] = 2

\* C22: every block that has reached the layout layer has a width and a
\* height that are not negative, and its position is its top-left corner.
C22_GeometryNonNegative ==
    ret.op = "add_text_blocks" =>
        \A block \in MembersOf(regions) :
            /\ width(block) >= 0
            /\ height(block) >= 0
            /\ block_position(block) = <<block.x0, block.y0>>

\* The boxes of the regions of every page, in the mapper's order.
C23_Boxes(regs) ==
    [i \in 1..Len(regs) |->
        [key |-> regs[i].key,
         value |-> [j \in 1..Len(regs[i].value) |-> Box(regs[i].value[j])]]]

\* C23: a fresh mapper fed a block list twice has the regions it has
\* after the first pass - same pages, same boxes, same order - and on the
\* second pass every block joins the region it joined on the first.
C23_FeedingTwiceAddsNoRegion ==
    (ret.op = "add_text_blocks" /\ ret.count = 2) =>
        LET once == add_text_blocks(<<>>, ret.blocks)
        IN  /\ C23_Boxes(regions) = C23_Boxes(once)
            /\ \A i \in 1..Len(once) : \A j \in 1..Len(once[i].value) :
                  regions[i].value[j].text_blocks =
                      once[i].value[j].text_blocks \o once[i].value[j].text_blocks

\* Two blocks cluster, a third stands alone; the second pass doubles the
\* members of both regions.
C23_Witness ==
    /\ ret.op = "add_text_blocks" /\ ret.count = 2
    /\ ret.blocks = <<bA, bC, bH>>
    /\ Len(regions) = 1 /\ Len(regions[1].value) = 2
    /\ regions[1].value[1].text_blocks = <<bA, bC, bA, bC>>
    /\ regions[1].value[2].text_blocks = <<bH, bH>>

-----------------------------------------------------------------------------
(* Further claims about FontDetector.                                      *)

C24_Key(span) == <<span.font_name, span.font_size, span.font_flags>>

\* The keys of the scope whose total is the greatest.
C24_Leaders(scope) ==
    {C24_Key(scope[i]) : i \in {k \in 1..Len(scope) :
        \A j \in 1..Len(scope) :
            C19_Total(scope, C24_Key(scope[j])) <= C19_Total(scope, C24_Key(scope[k]))}}

\* The span at which `key` enters the aggregation, and the span at which
\* its running total reaches its final value.
C24_FirstSeen(scope, key) == Min({i \in 1..Len(scope) : C24_Key(scope[i]) = key})
C24_Reached(scope, key) ==
    Min({i \in 1..Len(scope) :
            /\ C24_Key(scope[i]) = key
            /\ C19_Total(SubSeq(scope, 1, i), key) = C19_Total(scope, key)})

C24_Returned == <<Val(ret.result).name, Val(ret.result).size, Val(ret.result).flags>>

C24_Answered == ret.op = "get_dominant_font" /\ ret.exc = "none" /\ ~IsNone(ret.result)

\* C24 as stated: among the keys that tie for the greatest total, the one
\* whose running total reached that value first is returned.
C24_FirstToReachWins ==
    C24_Answered =>
        LET scope == C19_Scope(ret.blocks, ret.page)
        IN  /\ C24_Returned \in C24_Leaders(scope)
            /\ \A other \in C24_Leaders(scope) :
                  C24_Reached(scope, C24_Returned) <= C24_Reached(scope, other)

\* C24, amended: among the keys that tie for the greatest total, the one
\* that entered the aggregation first (the first in document order) is
\* returned, whenever its total reached that value.
C24_FirstSeenWins ==
    C24_Answered =>
        LET scope == C19_Scope(ret.blocks, ret.page)
        IN  /\ C24_Returned \in C24_Leaders(scope)
            /\ \A other \in C24_Leaders(scope) :
                  C24_FirstSeen(scope, C24_Returned) <= C24_FirstSeen(scope, other)

\* Two keys tie; the one returned entered first and reached the total last.
C24_Witness ==
    /\ C24_Answered
    /\ LET scope == C19_Scope(ret.blocks, ret.page)
       IN  \E other \in C24_Leaders(scope) :
              /\ other # C24_Returned
              /\ C24_FirstSeen(scope, C24_Returned) < C24_FirstSeen(scope, other)
              /\ C24_Reached(scope, other) < C24_Reached(scope, C24_Returned)

-----------------------------------------------------------------------------
(* Claims about what PDFEditor's mutations leave alone.                    *)

MutationOps == {"correct_spelling", "replace_text", "insert_text"}

\* C25: on a loaded editor, correct_spelling, replace_text and insert_text
\* leave the cached block list and the mapper's regions as they were,
\* whether they write to another file or onto the editor's own file; a
\* later get_text_blocks is served from that cache.
C25_MutationsKeepCache ==
    [][(/\ ~IsNone(text_blocks)
        /\ ret'.op \in MutationOps \cup {"get_text_blocks"})
          => /\ text_blocks' = text_blocks
             /\ regions' = regions
             /\ ret'.op = "get_text_blocks" /\ ret'.exc = "none"
                   => ret'.result = C19_Scope(Val(text_blocks), ret'.page)]_vars

\* A batch that re-rendered a block and saved onto the editor's own file,
\* on a loaded editor.
C25_Witness ==
    /\ ret.op \in BatchOps
    /\ ret.path = Some(InPath)
    /\ ret.count >= 1
    /\ ~IsNone(text_blocks) /\ regions # <<>>
    /\ writes # <<>> /\ writes[Len(writes)].path = InPath

-----------------------------------------------------------------------------
(* Claims about the targets of PDFEditor.replace_text.                     *)

C27_Replaced == ret.op = "replace_text" /\ ret.exc = "none"

\* The same call on an editor that has just loaded the file, the engine
\* accepting every insertion.
C27_AfterLoad ==
    LET loaded == AsState(load(EditorState(None, <<>>, <<>>, {}), file))
        found == find_blocks_by_text(loaded.regions, ret.text, ret.page)
    IN  replace_text(loaded, OutPath, ret.text, ret.new_text, ret.page, ret.preserve_style,
                     [i \in 1..Len(found) |-> EngineOk])

\* C27: replace_text on an editor that was never loaded re-renders the
\* blocks, and returns the count, that it would after an explicit load.
C27_SameTargetsWithoutLoad ==
    (C27_Replaced /\ IsNone(text_blocks)) =>
        /\ ret.count = C27_AfterLoad.count
        /\ [i \in 1..Len(ret.result) |-> ret.result[i].block] =
              [i \in 1..Len(C27_AfterLoad.result) |-> C27_AfterLoad.result[i].block]

\* C28: on a loaded editor, for new # old, replace_text re-renders every
\* block that find_text returns for the same text and page, and the count
\* it returns is the number of those blocks.
C28_ReplaceCountsWhatFindReturns ==
    (C27_Replaced /\ ~IsNone(text_blocks) /\ ret.new_text # ret.text) =>
        LET found == find_text(Editor, file, ret.text, ret.page).result
        IN  /\ ret.count = Len(found)
            /\ [i \in 1..Len(ret.result) |-> ret.result[i].block] = found

-----------------------------------------------------------------------------
(* Claims about SpellChecker.                                              *)

\* The words the caller put into the dictionary, in any case.
C21_Holds(word) == \E d \in custom_dictionary : Lower(d) = Lower(word)

\* C21: the custom dictionary holds lowercase words only, and a word that
\* is in it, in whatever case it was supplied and in whatever case it is
\* queried, is reported correct by check_word and returned unchanged by
\* correct_word.
C21_DictionaryWordsAreCorrect ==
    /\ \A d \in custom_dictionary : d = Lower(d)
    /\ (ret.op = "check_word" /\ C21_Holds(ret.text)) => ret.ok = "True"
    /\ (ret.op = "correct_word" /\ C21_Holds(ret.text)) => ret.result = ret.text


\* C29: correct_text changes a text only if check_text reports a mistake
\* in it.
C29_CorrectsOnlyWhatCheckReports ==
    (ret.op = "correct_text" /\ ret.result # ret.text) =>
        check_text(ret.text, custom_dictionary) # <<>>

\* Claims about the session layer of api_server.py.

\* No path is written by two requests at once.
C26_OneWriterPerPath ==
    \A path \in ServerPaths : Cardinality(disk[path].writers) <= 1

\* At most one request is between the start of its write of the temporary
\* output and the end of its reload of the session's editor.
C26_StepsNotInterleaved ==
    Cardinality({i \in 1..Len(requests) :
                    requests[i].pc \in {"saving", "exists", "replace", "reload"}}) <= 1

\* When every request has been answered, the session's file holds the edit
\* of each.
C26_NoLostUpdate ==
    (\A i \in 1..Len(requests) : requests[i].pc = "done")
        => /\ Opens(disk[SessionPath])
           /\ \A i \in 1..Len(requests) : i \in disk[SessionPath].edits

\* C26: the session layer serializes the mutation requests of one pdf_id:
\* two requests (replace-text, insert-text, rotate) never interleave their
\* steps write the temporary output / replace the session's file / reload
\* the session's editor, no path is written by two requests at once, and
\* when the requests have completed the session's file holds every edit.
C26_SessionLayerSerializes ==
    /\ C26_StepsNotInterleaved
    /\ C26_OneWriterPerPath
    /\ C26_NoLostUpdate

====
